---- MODULE Spec2Model ----
(***************************************************************************)
(* The learner core of xgboost in its two generations:                    *)
(*   BoostLearner         src/src/learner/learner-inl.hpp (current)        *)
(*   RegRankBoostLearner  src/unnamed/part_001            (legacy)         *)
(* A learner is a record of its data members; every member function is a   *)
(* pure operator from the learner (and the matrices it is handed) to the   *)
(* learner after the call plus the fatal error, if any, the call ended in. *)
(* An action is one call of a public member function by the driver.        *)
(***************************************************************************)
EXTENDS Integers, Sequences, FiniteSets, TLC

\* ---------------------------------------------------------------- bounds
MaxRow == 2       \* a matrix has 1..MaxRow rows
MaxCol == 2       \* a matrix has 1..MaxCol columns
MaxMats == 3      \* SetCacheData is handed a list of at most MaxMats handles
MaxCfg == 3       \* the driver stops calling SetParam at MaxCfg logged pairs
MaxAlloc == 2     \* the legacy driver calls InitTrainer at most MaxAlloc times
MaxIter == 2      \* iteration indices 0..MaxIter-1, at most MaxIter boosters

\* ------------------------------------------------------------- universes
Learners == {"L1", "L2"}
Mats == {"m1", "m2"}
NoLearner == "NULL"

KindCur == "BoostLearner"
KindLeg == "RegRankBoostLearner"
KindNone == "unconstructed"

\* utils::Assert / utils::Check / utils::Error end the process with a message
NoErr == "none"
ErrCacheOnce == "can only call cache data once"
ErrClearBuffer == "need buffer offset bigger than 0"
ErrSigmoid == "sigmoid range constrain"
ErrNullDeref == "null pointer dereference"
ErrUseAfterFree == "use after free"
ErrDoubleFree == "double free"
ErrUnknownObj == "unknown objective function type"
ErrUnknownGbm == "unknown booster type"
ErrGbmObjNull == "GBM and obj should be NULL"
ErrFormat == "BoostLearner: wrong model format"
ErrProbRange == "base_score must be in (0,1) for logistic loss"
ErrNotInit == "model not initialized"
ErrMClass == "BUG: UpdateOneIter: mclass"
ErrInteract == "interact mode must cache training data"
ErrOutOfRange == "read past the end of a vector"

VARIABLES
  learner,   \* [Learners -> learner record], the data members of each learner
  mat,       \* [Mats -> [num_row, num_col, cache_learner_ptr_]], the DMatrix objects
  err,       \* the fatal error the process ended in, or NoErr
  last       \* the call the driver made last: [op, l, arg, ret, out, calls]:
             \* ret the buffer offset it looked up, out what it returned or
             \* wrote, calls the calls it made on its plug-ins, in order

vars == <<learner, mat, err, last>>

\* ------------------------------------------------------- strings, numbers
\* snprintf("%u" / "%lu" / "%d") of a small non-negative number
DecStr == <<"0", "1", "2", "3", "4", "5", "6", "7", "8", "9", "10", "11", "12",
            "13", "14", "15", "16", "17", "18", "19", "20", "21", "22", "23", "24">>

FormatNum(n) == DecStr[n + 1]

\* atoi: the number a decimal string denotes, 0 for a string that is no number
atoi(s) ==
  IF \E n \in 1..Len(DecStr) : DecStr[n] = s
  THEN (CHOOSE n \in 1..Len(DecStr) : DecStr[n] = s) - 1
  ELSE 0

\* atof, in thousandths: the base_score values the driver configures
atof(s) ==
  CASE s = "0.5" -> 500
    [] s = "0.7" -> 700
    [] s = "0.3" -> 300
    [] OTHER -> 1000 * atoi(s)

Max(a, b) == IF a > b THEN a ELSE b

\* value of the last pair named key in a parameter sequence, dflt when none
RECURSIVE LastValue(_, _, _)
LastValue(params, key, dflt) ==
  IF params = <<>> THEN dflt
  ELSE IF params[Len(params)][1] = key THEN params[Len(params)][2]
  ELSE LastValue(SubSeq(params, 1, Len(params) - 1), key, dflt)

\* result of a member function: the learner after it and the fatal error, if any
Ok(L) == [L |-> L, err |-> NoErr]
Fail(L, e) == [L |-> L, err |-> e]

\* ------------------------------------------- the plug-ins the core drives
\* names the objective and booster factories know
ObjNames == {"reg:linear", "binary:logistic", "multi:softmax", "multi:softprob"}
GbmNames == {"gbtree", "gblinear"}

\* -logf(1.0f / x - 1.0f) in thousandths, on the values the model configures
\* and on 847, which stands for the float 0.847298 that 0.7 is mapped to
Logit(x) ==
  CASE x = 500 -> 0
    [] x = 700 -> 847
    [] x = 300 -> -847
    [] x = 847 -> 1714

\* IObjFunction::ProbToMargin: the logistic objectives map a probability to
\* its logit and refuse a base_score outside (0,1); the others return it as is
Obj_ProbToMargin(name, x) ==
  IF name = "binary:logistic"
  THEN IF x > 0 /\ x < 1000 THEN [val |-> Logit(x), err |-> NoErr]
       ELSE [val |-> x, err |-> ErrProbRange]
  ELSE [val |-> x, err |-> NoErr]

\* a pointer member and the object it points to: ptr is "NULL", "live" or
\* "freed" (deleted, the pointer left dangling); serial counts the objects
\* this member has been made to point to
NullObj == [ptr |-> "NULL", name |-> "", params |-> <<>>, serial |-> 0]
NullGbm == [ptr |-> "NULL", name |-> "", params |-> <<>>, serial |-> 0,
            model |-> "none", nboost |-> 0]

CreateObjFunction(name, old) ==
  [ptr |-> "live", name |-> name, params |-> <<>>, serial |-> old.serial + 1]

CreateGradBooster(name, old) ==
  [ptr |-> "live", name |-> name, params |-> <<>>, serial |-> old.serial + 1,
   model |-> "none", nboost |-> 0]

\* obj->SetParam / gbm->SetParam: the instance receives one more pair
Plugin_SetParam(inst, name, val) == [inst EXCEPT !.params = Append(@, <<name, val>>)]

\* the outcomes of a call through a pointer: a NULL pointer faults, a dangling
\* one faults or runs on the freed object (ub says which), a live one runs
DerefErr(p, ub) ==
  CASE p.ptr = "NULL" -> ErrNullDeref
    [] p.ptr = "freed" /\ ub = "crash" -> ErrUseAfterFree
    [] OTHER -> NoErr

\* delete p: a live object is freed and the pointer keeps its value; deleting
\* a dangling pointer is a double free, which faults or goes unnoticed
DeleteErr(p, ub) == IF p.ptr = "freed" /\ ub = "crash" THEN ErrDoubleFree ELSE NoErr
Delete(p) == IF p.ptr = "NULL" THEN p ELSE [p EXCEPT !.ptr = "freed"]

\* the booster's SaveModel: its own state, the ensemble, as one field of the
\* stream; a booster whose model was never set up has nothing to save
Gbm_SaveModel(g) ==
  IF g.model = "none" THEN [state |-> <<>>, err |-> ErrNotInit]
  ELSE [state |-> <<g.nboost>>, err |-> NoErr]

\* the booster's Predict on a matrix: its value is decided by the ensemble
\* and the matrix; a buffer slot only saves recomputing it
Gbm_Predict(g, m) == [of |-> m, ens |-> g.nboost]

\* the metrics the evaluation registry knows, and each objective's default
EvalNames == {"rmse", "error", "merror", "logloss", "auc"}

Obj_DefaultEvalMetric(name) ==
  CASE name = "reg:linear" -> "rmse"
    [] name = "binary:logistic" -> "error"
    [] OTHER -> "merror"

\* CreateEvaluator / EvalSet::Create: the evaluator of a metric, a NULL
\* pointer for a name the registry does not know
CreateEvaluator(metric) == IF metric \in EvalNames THEN "live" ELSE "NULL"

\* EvalSet::Eval: the segment of the report for one data set, its label and
\* the score of the predictions handed in
EvalSet_Eval(evname, preds) == [name |-> evname, preds |-> preds]

\* GBMPP::InteractPredict on a matrix: the trial prediction of its rows
Gbm_InteractPredict(g, m) == [trial |-> m, ens |-> g.nboost]

\* IObjFunction::PredTransform: the vector handed in, mapped to the output
\* scale of predictions
Obj_PredTransform(preds) == [pred |-> preds]

\* GBMPP::DelteBooster: the booster added last leaves the ensemble
Gbm_DelteBooster(g) == [g EXCEPT !.nboost = IF @ > 0 THEN @ - 1 ELSE @]

\* a call a learner makes on a plug-in: the function, the ensemble size the
\* callee finds, the booster group and buffer offset passed (-1 when the call
\* has no such argument or passes -1), and the vector passed or returned
PluginCall(fn, ens, group, off, data) ==
  [fn |-> fn, ens |-> ens, group |-> group, off |-> off, data |-> data]

\* ----------------------------------------------------------- the matrices
\* the row counts of the cache entries before entry i
RECURSIVE SumRows(_, _)
SumRows(cache, i) ==
  IF i <= 1 THEN 0 ELSE SumRows(cache, i - 1) + cache[i - 1].num_row_

TotalRows(cache) == SumRows(cache, Len(cache) + 1)

\* ========================================================== BoostLearner
ModelParam_Init == [base_score |-> 500, num_feature |-> 0, num_class |-> 0, reserved |-> 0]

ModelParam_SetParam(mp, name, val) ==
  [mp EXCEPT !.base_score = IF name = "base_score" THEN atof(val) ELSE @,
             !.num_class = IF name = "num_class" THEN atoi(val) ELSE @,
             !.num_feature = IF name = "bst:num_feature" THEN atoi(val) ELSE @]

BoostLearner_Init ==
  [kind |-> KindCur, obj_ |-> NullObj, gbm_ |-> NullGbm,
   name_obj_ |-> "reg:linear", name_gbm_ |-> "gbtree",
   mparam |-> ModelParam_Init, cfg_ |-> <<>>, cache_ |-> <<>>]

\* SetParam without the test that the booster does not exist yet
Mutant_SetParam_NoGuard(L, name, val) ==
  [L EXCEPT !.name_obj_ = IF name = "objective" THEN val ELSE @,
            !.name_gbm_ = IF name = "booster" THEN val ELSE @,
            !.mparam = ModelParam_SetParam(@, name, val),
            !.cfg_ = Append(@, <<name, val>>)]

BoostLearner_SetParam(L, name, val) ==
  LET L1 == IF L.gbm_.ptr = "NULL"
            THEN [L EXCEPT !.name_obj_ = IF name = "objective" THEN val ELSE @,
                           !.name_gbm_ = IF name = "booster" THEN val ELSE @,
                           !.mparam = ModelParam_SetParam(@, name, val)]
            ELSE L
  IN [L1 EXCEPT !.cfg_ = Append(@, <<name, val>>)]

\* the registration loop with the duplicate test left out
RECURSIVE Mutant_CacheLoop_NoDupTest(_, _, _, _)
Mutant_CacheLoop_NoDupTest(st, l, mats, i) ==
  IF i > Len(mats) THEN st
  ELSE Mutant_CacheLoop_NoDupTest(
         [cache_ |-> Append(st.cache_, [mat_ |-> mats[i],
                                        buffer_offset_ |-> st.buffer_size,
                                        num_row_ |-> st.M[mats[i]].num_row]),
          M |-> [st.M EXCEPT ![mats[i]].cache_learner_ptr_ = l],
          buffer_size |-> st.buffer_size + st.M[mats[i]].num_row,
          num_feature |-> Max(st.num_feature, st.M[mats[i]].num_col)],
         l, mats, i + 1)

\* the registration loop of SetCacheData from index i on; st carries cache_,
\* the matrices, buffer_size and num_feature
RECURSIVE BoostLearner_CacheLoop(_, _, _, _)
BoostLearner_CacheLoop(st, l, mats, i) ==
  IF i > Len(mats) THEN st
  ELSE IF \E j \in 1..(i - 1) : mats[i] = mats[j]
  THEN BoostLearner_CacheLoop(st, l, mats, i + 1)
  ELSE BoostLearner_CacheLoop(
         [cache_ |-> Append(st.cache_, [mat_ |-> mats[i],
                                        buffer_offset_ |-> st.buffer_size,
                                        num_row_ |-> st.M[mats[i]].num_row]),
          M |-> [st.M EXCEPT ![mats[i]].cache_learner_ptr_ = l],
          buffer_size |-> st.buffer_size + st.M[mats[i]].num_row,
          num_feature |-> Max(st.num_feature, st.M[mats[i]].num_col)],
         l, mats, i + 1)

\* SetCacheData with the "only once" assertion left out
Mutant_SetCacheData_NoAssert(L, l, M, mats) ==
  LET st == BoostLearner_CacheLoop(
              [cache_ |-> L.cache_, M |-> M, buffer_size |-> 0, num_feature |-> 0],
              l, mats, 1)
      L1 == [L EXCEPT !.cache_ = st.cache_]
      L3 == BoostLearner_SetParam(L1, "num_pbuffer", FormatNum(st.buffer_size))
  IN [L |-> L3, M |-> st.M, err |-> NoErr]

BoostLearner_SetCacheData(L, l, M, mats) ==
  IF Len(L.cache_) # 0 THEN [L |-> L, M |-> M, err |-> ErrCacheOnce]
  ELSE
    LET st == BoostLearner_CacheLoop(
                [cache_ |-> L.cache_, M |-> M, buffer_size |-> 0, num_feature |-> 0],
                l, mats, 1)
        L1 == [L EXCEPT !.cache_ = st.cache_]
        L2 == IF st.num_feature > L1.mparam.num_feature
              THEN BoostLearner_SetParam(L1, "bst:num_feature", FormatNum(st.num_feature))
              ELSE L1
        L3 == BoostLearner_SetParam(L2, "num_pbuffer", FormatNum(st.buffer_size))
    IN [L |-> L3, M |-> st.M, err |-> NoErr]

\* the replay loop running from the newest logged pair to the oldest
RECURSIVE Mutant_Replay_Backwards(_, _, _)
Mutant_Replay_Backwards(inst, cfg, i) ==
  IF i > Len(cfg) THEN inst
  ELSE Mutant_Replay_Backwards(
         Plugin_SetParam(inst, cfg[Len(cfg) + 1 - i][1], cfg[Len(cfg) + 1 - i][2]),
         cfg, i + 1)

\* the replay loop of InitObjGBM from index i on
RECURSIVE BoostLearner_Replay(_, _, _)
BoostLearner_Replay(inst, cfg, i) ==
  IF i > Len(cfg) THEN inst
  ELSE BoostLearner_Replay(Plugin_SetParam(inst, cfg[i][1], cfg[i][2]), cfg, i + 1)

BoostLearner_InitObjGBM(L) ==
  IF L.obj_.ptr # "NULL" THEN Ok(L)
  ELSE IF L.gbm_.ptr # "NULL" THEN Fail(L, ErrGbmObjNull)
  ELSE IF L.name_obj_ \notin ObjNames THEN Fail(L, ErrUnknownObj)
  ELSE
    LET L1 == [L EXCEPT !.obj_ = CreateObjFunction(L.name_obj_, @)]
    IN IF L.name_gbm_ \notin GbmNames THEN Fail(L1, ErrUnknownGbm)
       ELSE
         LET L2 == [L1 EXCEPT !.gbm_ = CreateGradBooster(L.name_gbm_, @)]
         IN Ok([L2 EXCEPT !.obj_ = BoostLearner_Replay(@, L.cfg_, 1),
                          !.gbm_ = BoostLearner_Replay(@, L.cfg_, 1)])

BoostLearner_InitModel(L, ub) ==
  LET r == BoostLearner_InitObjGBM(L)
      L1 == r.L
  IN IF r.err # NoErr THEN r
     ELSE IF DerefErr(L1.obj_, ub) # NoErr THEN Fail(L1, DerefErr(L1.obj_, ub))
     ELSE
       LET p == Obj_ProbToMargin(L1.obj_.name, L1.mparam.base_score)
           L2 == [L1 EXCEPT !.mparam.base_score = p.val]
       IN IF p.err # NoErr THEN Fail(L1, p.err)
          ELSE IF DerefErr(L2.gbm_, ub) # NoErr THEN Fail(L2, DerefErr(L2.gbm_, ub))
          ELSE Ok([L2 EXCEPT !.gbm_.model = "init", !.gbm_.nboost = 0])

\* LoadModel converting the base_score it read to margin space once more
Mutant_LoadModel_Reconverts(L, fi, ub) ==
  IF Len(fi) < 1 THEN Fail(L, ErrFormat)
  ELSE
    LET L1 == [L EXCEPT !.mparam = fi[1]]
    IN IF Len(fi) < 2 THEN Fail(L1, ErrFormat)
       ELSE
         LET L2 == [L1 EXCEPT !.name_obj_ = fi[2]]
         IN IF Len(fi) < 3 THEN Fail(L2, ErrFormat)
            ELSE
              LET L3 == [L2 EXCEPT !.name_gbm_ = fi[3]]
              IN IF DeleteErr(L3.obj_, ub) # NoErr THEN Fail(L3, DeleteErr(L3.obj_, ub))
                 ELSE
                   LET L4 == [L3 EXCEPT !.obj_ = Delete(@)]
                   IN IF DeleteErr(L4.gbm_, ub) # NoErr
                      THEN Fail(L4, DeleteErr(L4.gbm_, ub))
                      ELSE
                        LET L5 == [L4 EXCEPT !.gbm_ = Delete(@)]
                            r == BoostLearner_InitObjGBM(L5)
                            L6 == r.L
                        IN IF r.err # NoErr THEN r
                           ELSE IF DerefErr(L6.gbm_, ub) # NoErr
                           THEN Fail(L6, DerefErr(L6.gbm_, ub))
                           ELSE IF Len(fi) < 4 THEN Fail(L6, ErrFormat)
                           ELSE Ok([L6 EXCEPT !.gbm_.model = "loaded",
                                              !.gbm_.nboost = fi[4],
                                              !.mparam.base_score =
                                                 Obj_ProbToMargin(L6.obj_.name, @).val])

\* a model stream is the sequence of its fields: for this generation
\* <<ModelParam, objective name, booster name, booster state>>
BoostLearner_LoadModel(L, fi, ub) ==
  IF Len(fi) < 1 THEN Fail(L, ErrFormat)
  ELSE
    LET L1 == [L EXCEPT !.mparam = fi[1]]
    IN IF Len(fi) < 2 THEN Fail(L1, ErrFormat)
       ELSE
         LET L2 == [L1 EXCEPT !.name_obj_ = fi[2]]
         IN IF Len(fi) < 3 THEN Fail(L2, ErrFormat)
            ELSE
              LET L3 == [L2 EXCEPT !.name_gbm_ = fi[3]]
              IN IF DeleteErr(L3.obj_, ub) # NoErr THEN Fail(L3, DeleteErr(L3.obj_, ub))
                 ELSE
                   LET L4 == [L3 EXCEPT !.obj_ = Delete(@)]
                   IN IF DeleteErr(L4.gbm_, ub) # NoErr
                      THEN Fail(L4, DeleteErr(L4.gbm_, ub))
                      ELSE
                        LET L5 == [L4 EXCEPT !.gbm_ = Delete(@)]
                            r == BoostLearner_InitObjGBM(L5)
                            L6 == r.L
                        IN IF r.err # NoErr THEN r
                           ELSE IF DerefErr(L6.gbm_, ub) # NoErr
                           THEN Fail(L6, DerefErr(L6.gbm_, ub))
                           ELSE IF Len(fi) < 4 THEN Fail(L6, ErrFormat)
                           ELSE Ok([L6 EXCEPT !.gbm_.model = "loaded",
                                              !.gbm_.nboost = fi[4]])

\* SaveModel writing the booster name before the objective name
Mutant_SaveModel_NamesSwapped(L, ub) ==
  LET head == <<L.mparam, L.name_gbm_, L.name_obj_>>
      wr == <<"mparam", "name_gbm_", "name_obj_">>
  IN IF DerefErr(L.gbm_, ub) # NoErr
     THEN [fo |-> head, calls |-> wr, err |-> DerefErr(L.gbm_, ub)]
     ELSE [fo |-> head \o Gbm_SaveModel(L.gbm_).state,
           calls |-> Append(wr, "gbm SaveModel"), err |-> Gbm_SaveModel(L.gbm_).err]

\* SaveModel: the fields written to fo, the writes it made (by the member
\* written, the last one made by the booster), and the error it ended in
BoostLearner_SaveModel(L, ub) ==
  LET head == <<L.mparam, L.name_obj_, L.name_gbm_>>
      wr == <<"mparam", "name_obj_", "name_gbm_">>
  IN IF DerefErr(L.gbm_, ub) # NoErr
     THEN [fo |-> head, calls |-> wr, err |-> DerefErr(L.gbm_, ub)]
     ELSE [fo |-> head \o Gbm_SaveModel(L.gbm_).state,
           calls |-> Append(wr, "gbm SaveModel"), err |-> Gbm_SaveModel(L.gbm_).err]

\* the lookup loop with the row-count test left out
RECURSIVE Mutant_FindLoop_NoRowTest(_, _, _, _, _)
Mutant_FindLoop_NoRowTest(L, l, M, m, i) ==
  IF i > Len(L.cache_) THEN -1
  ELSE IF L.cache_[i].mat_ = m /\ M[m].cache_learner_ptr_ = l
  THEN L.cache_[i].buffer_offset_
  ELSE Mutant_FindLoop_NoRowTest(L, l, M, m, i + 1)

\* the buffer offset of matrix m for learner l, -1 when it has none
RECURSIVE BoostLearner_FindLoop(_, _, _, _, _)
BoostLearner_FindLoop(L, l, M, m, i) ==
  IF i > Len(L.cache_) THEN -1
  ELSE IF L.cache_[i].mat_ = m /\ M[m].cache_learner_ptr_ = l
          /\ L.cache_[i].num_row_ = M[m].num_row
  THEN L.cache_[i].buffer_offset_
  ELSE BoostLearner_FindLoop(L, l, M, m, i + 1)

BoostLearner_FindBufferOffset(L, l, M, m) == BoostLearner_FindLoop(L, l, M, m, 1)

\* PredictRaw: the booster predicts with the offset FindBufferOffset gives
BoostLearner_PredictRawValue(L, m) == Gbm_Predict(L.gbm_, m)

BoostLearner_PredictRaw(L, l, M, m, ub) ==
  [off |-> BoostLearner_FindBufferOffset(L, l, M, m), err |-> DerefErr(L.gbm_, ub)]

\* Predict: raw prediction, then PredTransform
BoostLearner_Predict(L, l, M, m, ub) ==
  LET r == BoostLearner_PredictRaw(L, l, M, m, ub)
      preds == BoostLearner_PredictRawValue(L, m)
      c1 == PluginCall("Predict", L.gbm_.nboost, -1, r.off, preds)
      c2 == PluginCall("PredTransform", L.gbm_.nboost, -1, -1, preds)
  IN IF r.err # NoErr THEN [off |-> r.off, calls |-> <<>>, err |-> r.err]
     ELSE IF DerefErr(L.obj_, ub) # NoErr
     THEN [off |-> r.off, calls |-> <<c1>>, err |-> DerefErr(L.obj_, ub)]
     ELSE [off |-> r.off, calls |-> <<c1, c2>>, err |-> NoErr]

\* IObjFunction::GetGradient: the length of the gradient vector it fills, one
\* entry per row, times the class count for the multi-class objectives
Obj_GradSize(obj, rows) ==
  IF obj.name \in {"multi:softmax", "multi:softprob"}
  THEN rows * atoi(LastValue(obj.params, "num_class", "1"))
  ELSE rows

\* IObjFunction::GetGradient: the gradient vector, each element with its
\* index, the predictions it was computed from and the iteration number given
Obj_GetGradient(obj, preds, rows, iter) ==
  [i \in 1..Obj_GradSize(obj, rows) |-> [idx |-> i - 1, preds |-> preds, iter |-> iter]]

\* UpdateOneIter boosting before it predicts and asks for the gradient
Mutant_UpdateOneIter_BoostFirst(L, l, M, iter, m, ub) ==
  LET r == BoostLearner_PredictRaw(L, l, M, m, ub)
      c3 == PluginCall("DoBoost", L.gbm_.nboost, -1, -1, <<>>)
      Lb == [L EXCEPT !.gbm_.nboost = @ + 1]
      preds == BoostLearner_PredictRawValue(Lb, m)
      c1 == PluginCall("Predict", Lb.gbm_.nboost, -1, r.off, preds)
      gpair == Obj_GetGradient(L.obj_, preds, M[m].num_row, iter)
      c2 == PluginCall("GetGradient", Lb.gbm_.nboost, -1, -1, gpair)
  IN IF r.err # NoErr THEN [L |-> L, off |-> r.off, calls |-> <<>>, err |-> r.err]
     ELSE IF DerefErr(L.obj_, ub) # NoErr
     THEN [L |-> Lb, off |-> r.off, calls |-> <<c3, c1>>, err |-> DerefErr(L.obj_, ub)]
     ELSE [L |-> Lb, off |-> r.off, calls |-> <<c3, c1, c2>>, err |-> NoErr]

\* one BoostLearner::UpdateOneIter: predict, gradient, one DoBoost with the
\* whole gradient vector
BoostLearner_UpdateOneIter(L, l, M, iter, m, ub) ==
  LET r == BoostLearner_PredictRaw(L, l, M, m, ub)
      preds == BoostLearner_PredictRawValue(L, m)
      c1 == PluginCall("Predict", L.gbm_.nboost, -1, r.off, preds)
      gpair == Obj_GetGradient(L.obj_, preds, M[m].num_row, iter)
      c2 == PluginCall("GetGradient", L.gbm_.nboost, -1, -1, gpair)
      c3 == PluginCall("DoBoost", L.gbm_.nboost, -1, -1, gpair)
  IN IF r.err # NoErr THEN [L |-> L, off |-> r.off, calls |-> <<>>, err |-> r.err]
     ELSE IF DerefErr(L.obj_, ub) # NoErr
     THEN [L |-> L, off |-> r.off, calls |-> <<c1>>, err |-> DerefErr(L.obj_, ub)]
     ELSE [L |-> [L EXCEPT !.gbm_.nboost = @ + 1], off |-> r.off,
           calls |-> <<c1, c2, c3>>, err |-> NoErr]

\* the offset a call that predicts several matrices reports: -1 when one of
\* them has no valid cache entry, else the offset of the first, 0 for none
LookupsOf(offs) ==
  IF \E i \in 1..Len(offs) : offs[i] = -1 THEN -1
  ELSE IF offs = <<>> THEN 0 ELSE offs[1]

\* the loop of EvalOneIter from index i on: raw prediction, EvalTransform and
\* the evaluation set's segment for evals[i] under the label evname[i]; acc
\* carries the segments, the plug-in calls and the error so far
RECURSIVE BoostLearner_EvalLoop(_, _, _, _, _, _, _, _)
BoostLearner_EvalLoop(acc, L, l, M, evals, evname, ub, i) ==
  IF i > Len(evals) THEN acc
  ELSE
    LET r == BoostLearner_PredictRaw(L, l, M, evals[i], ub)
        preds == BoostLearner_PredictRawValue(L, evals[i])
        c1 == PluginCall("Predict", L.gbm_.nboost, -1, r.off, preds)
        c2 == PluginCall("EvalTransform", L.gbm_.nboost, -1, -1, preds)
        c3 == PluginCall("Eval", L.gbm_.nboost, -1, -1, preds)
        name == IF i <= Len(evname) THEN evname[i] ELSE "garbage"
    IN IF r.err # NoErr THEN [acc EXCEPT !.err = r.err]
       ELSE IF DerefErr(L.obj_, ub) # NoErr
       THEN [acc EXCEPT !.calls = Append(@, c1), !.err = DerefErr(L.obj_, ub)]
       ELSE IF i > Len(evname) /\ ub = "crash"
       THEN [acc EXCEPT !.calls = @ \o <<c1, c2>>, !.err = ErrOutOfRange]
       ELSE BoostLearner_EvalLoop(
              [acc EXCEPT !.segs = Append(@, EvalSet_Eval(name, preds)),
                          !.calls = @ \o <<c1, c2, c3>>],
              L, l, M, evals, evname, ub, i + 1)

\* EvalOneIter starting its loop at the second matrix
Mutant_EvalOneIter_FromSecond(L, l, M, iter, evals, evname, ub) ==
  LET a == BoostLearner_EvalLoop([segs |-> <<>>, calls |-> <<>>, err |-> NoErr],
                                 L, l, M, evals, evname, ub, 2)
  IN [res |-> [head |-> "[" \o FormatNum(iter) \o "]", segs |-> a.segs],
      off |-> LookupsOf([i \in 1..Len(evals) |->
                           BoostLearner_FindBufferOffset(L, l, M, evals[i])]),
      calls |-> a.calls, err |-> a.err]

\* EvalOneIter: the report is "[iter]" followed by the segments
BoostLearner_EvalOneIter(L, l, M, iter, evals, evname, ub) ==
  LET a == BoostLearner_EvalLoop([segs |-> <<>>, calls |-> <<>>, err |-> NoErr],
                                 L, l, M, evals, evname, ub, 1)
  IN [res |-> [head |-> "[" \o FormatNum(iter) \o "]", segs |-> a.segs],
      off |-> LookupsOf([i \in 1..Len(evals) |->
                           BoostLearner_FindBufferOffset(L, l, M, evals[i])]),
      calls |-> a.calls, err |-> a.err]

\* Evaluate: the metric ("auto": the objective's default), its evaluator,
\* raw prediction, EvalTransform, the score; res is the pair returned
BoostLearner_Evaluate(L, l, M, m, metric, ub) ==
  IF metric = "auto" /\ DerefErr(L.obj_, ub) # NoErr
  THEN [res |-> <<>>, off |-> 0, calls |-> <<>>, err |-> DerefErr(L.obj_, ub)]
  ELSE
    LET name == IF metric = "auto" THEN Obj_DefaultEvalMetric(L.obj_.name) ELSE metric
        ev == CreateEvaluator(name)
        r == BoostLearner_PredictRaw(L, l, M, m, ub)
        preds == BoostLearner_PredictRawValue(L, m)
        c1 == PluginCall("Predict", L.gbm_.nboost, -1, r.off, preds)
        c2 == PluginCall("EvalTransform", L.gbm_.nboost, -1, -1, preds)
        c3 == PluginCall("Eval", L.gbm_.nboost, -1, -1, preds)
    IN IF r.err # NoErr THEN [res |-> <<>>, off |-> r.off, calls |-> <<>>, err |-> r.err]
       ELSE IF DerefErr(L.obj_, ub) # NoErr
       THEN [res |-> <<>>, off |-> r.off, calls |-> <<c1>>, err |-> DerefErr(L.obj_, ub)]
       ELSE IF ev = "NULL"
       THEN [res |-> <<>>, off |-> r.off, calls |-> <<c1, c2>>, err |-> ErrNullDeref]
       ELSE [res |-> <<name, EvalSet_Eval(name, preds)>>, off |-> r.off,
             calls |-> <<c1, c2, c3>>, err |-> NoErr]

\* ==================================================== RegRankBoostLearner
RegRank_ModelParam_Init ==
  [base_score |-> 500, loss_type |-> -1, num_feature |-> 0, num_class |-> 0,
   clear_period |-> 0, reserved |-> 0]

RegRank_ModelParam_SetParam(mp, name, val) ==
  [mp EXCEPT !.base_score = IF name = "base_score" THEN atof(val) ELSE @,
             !.num_class = IF name = "num_class" THEN atoi(val) ELSE @,
             !.loss_type = IF name = "loss_type" THEN atoi(val) ELSE @,
             !.clear_period = IF name = "clear_period" THEN atoi(val) ELSE @,
             !.num_feature = IF name = "bst:num_feature" THEN atoi(val) ELSE @]

\* ModelParam::AdjustBase
RegRank_AdjustBase(mp, obj) ==
  LET lt == IF mp.loss_type = -1
            THEN (IF obj = "reg:linear" THEN 0 ELSE 1)
            ELSE mp.loss_type
      mp1 == [mp EXCEPT !.loss_type = lt]
  IN IF lt \in {1, 2, 3}
     THEN IF mp1.base_score > 0 /\ mp1.base_score < 1000
          THEN [mp |-> [mp1 EXCEPT !.base_score = Logit(@)], err |-> NoErr]
          ELSE [mp |-> mp1, err |-> ErrSigmoid]
     ELSE [mp |-> mp1, err |-> NoErr]

\* base_gbm is a member object: it lives as long as the learner
RegRank_Init ==
  [kind |-> KindLeg, obj_ |-> NullObj,
   base_gbm |-> [ptr |-> "live", name |-> "gbmpp", params |-> <<>>, serial |-> 1,
                 model |-> "none", nboost |-> 0],
   name_obj_ |-> "reg:linear",
   mparam |-> RegRank_ModelParam_Init, cfg_ |-> <<>>, cache_ |-> <<>>]

RegRank_SetParam(L, name, val) ==
  LET g1 == IF name = "num_class"
            THEN Plugin_SetParam(L.base_gbm, "num_booster_group", val)
            ELSE L.base_gbm
  IN [L EXCEPT !.name_obj_ = IF name = "objective" THEN val ELSE @,
               !.mparam = RegRank_ModelParam_SetParam(@, name, val),
               !.base_gbm = Plugin_SetParam(g1, name, val),
               !.cfg_ = Append(@, <<name, val>>)]

RECURSIVE RegRank_CacheLoop(_, _, _, _)
RegRank_CacheLoop(st, l, mats, i) ==
  IF i > Len(mats) THEN st
  ELSE IF \E j \in 1..(i - 1) : mats[i] = mats[j]
  THEN RegRank_CacheLoop(st, l, mats, i + 1)
  ELSE RegRank_CacheLoop(
         [cache_ |-> Append(st.cache_, [mat_ |-> mats[i],
                                        buffer_offset_ |-> st.buffer_size,
                                        num_row_ |-> st.M[mats[i]].num_row]),
          M |-> [st.M EXCEPT ![mats[i]].cache_learner_ptr_ = l],
          buffer_size |-> st.buffer_size + st.M[mats[i]].num_row,
          num_feature |-> Max(st.num_feature, st.M[mats[i]].num_col)],
         l, mats, i + 1)

RegRank_SetCacheData(L, l, M, mats) ==
  IF Len(L.cache_) # 0 THEN [L |-> L, M |-> M, err |-> ErrCacheOnce]
  ELSE
    LET st == RegRank_CacheLoop(
                [cache_ |-> L.cache_, M |-> M, buffer_size |-> 0, num_feature |-> 0],
                l, mats, 1)
        L1 == [L EXCEPT !.cache_ = st.cache_]
        L2 == IF st.num_feature > L1.mparam.num_feature
              THEN [L1 EXCEPT !.mparam.num_feature = st.num_feature,
                              !.base_gbm = Plugin_SetParam(@, "bst:num_feature",
                                                           FormatNum(st.num_feature))]
              ELSE L1
        L3 == [L2 EXCEPT !.base_gbm = Plugin_SetParam(@, "num_pbuffer",
                                                      FormatNum(st.buffer_size))]
    IN [L |-> L3, M |-> st.M, err |-> NoErr]

RECURSIVE RegRank_Replay(_, _, _)
RegRank_Replay(inst, cfg, i) ==
  IF i > Len(cfg) THEN inst
  ELSE RegRank_Replay(Plugin_SetParam(inst, cfg[i][1], cfg[i][2]), cfg, i + 1)

\* InitTrainer: the objective is created anew at every call, the pointer to
\* the one before is overwritten
RegRank_InitTrainer(L) ==
  LET L1 == IF L.mparam.num_class # 0
               /\ L.name_obj_ # "multi:softmax" /\ L.name_obj_ # "multi:softprob"
            THEN [L EXCEPT !.name_obj_ = "multi:softmax"]
            ELSE L
  IN IF L1.name_obj_ \notin ObjNames THEN Fail(L1, ErrUnknownObj)
     ELSE Ok([L1 EXCEPT !.obj_ = RegRank_Replay(CreateObjFunction(L1.name_obj_, @),
                                                L1.cfg_, 1)])

RegRank_InitModel(L) ==
  LET L1 == [L EXCEPT !.base_gbm.model = "init", !.base_gbm.nboost = 0]
      a == RegRank_AdjustBase(L1.mparam, L1.name_obj_)
  IN [L |-> [L1 EXCEPT !.mparam = a.mp], err |-> a.err]

\* a legacy model stream: <<booster state, ModelParam, objective name>>; the
\* objective name is read only when its length is still there
RegRank_LoadModel(L, fi) ==
  IF Len(fi) < 1 THEN Fail(L, ErrFormat)
  ELSE
    LET L1 == [L EXCEPT !.base_gbm.model = "loaded", !.base_gbm.nboost = fi[1]]
    IN IF Len(fi) < 2 THEN Fail(L1, ErrFormat)
       ELSE
         LET L2 == [L1 EXCEPT !.mparam = fi[2]]
         IN IF Len(fi) < 3 THEN Ok(L2)
            ELSE Ok([L2 EXCEPT !.name_obj_ = fi[3]])

\* SaveModel writing the ModelParam record and the name before the booster
Mutant_RegRank_SaveModel_ParamFirst(L) ==
  LET g == Gbm_SaveModel(L.base_gbm)
  IN IF g.err # NoErr
     THEN [fo |-> <<L.mparam, L.name_obj_>>, calls |-> <<"mparam", "name_obj_", "gbm SaveModel">>,
           err |-> g.err]
     ELSE [fo |-> <<L.mparam, L.name_obj_>> \o g.state,
           calls |-> <<"mparam", "name_obj_", "gbm SaveModel">>, err |-> NoErr]

RegRank_SaveModel(L) ==
  LET g == Gbm_SaveModel(L.base_gbm)
  IN IF g.err # NoErr THEN [fo |-> <<>>, calls |-> <<"gbm SaveModel">>, err |-> g.err]
     ELSE [fo |-> g.state \o <<L.mparam, L.name_obj_>>,
           calls |-> <<"gbm SaveModel", "mparam", "name_obj_">>, err |-> NoErr]

\* the lookup loop with the test of the matrix's back-reference left out
RECURSIVE Mutant_RegRank_FindLoop_NoOwnerTest(_, _, _, _, _)
Mutant_RegRank_FindLoop_NoOwnerTest(L, l, M, m, i) ==
  IF i > Len(L.cache_) THEN -1
  ELSE IF L.cache_[i].mat_ = m /\ L.cache_[i].num_row_ = M[m].num_row
  THEN L.cache_[i].buffer_offset_
  ELSE Mutant_RegRank_FindLoop_NoOwnerTest(L, l, M, m, i + 1)

RECURSIVE RegRank_FindLoop(_, _, _, _, _)
RegRank_FindLoop(L, l, M, m, i) ==
  IF i > Len(L.cache_) THEN -1
  ELSE IF L.cache_[i].mat_ = m /\ M[m].cache_learner_ptr_ = l
          /\ L.cache_[i].num_row_ = M[m].num_row
  THEN L.cache_[i].buffer_offset_
  ELSE RegRank_FindLoop(L, l, M, m, i + 1)

RegRank_FindBufferOffset(L, l, M, m) == RegRank_FindLoop(L, l, M, m, 1)

\* PredictBuffer: base_score plus the booster's prediction, row by row
RegRank_PredictRawValue(L, m) ==
  [base |-> L.mparam.base_score, gbm |-> Gbm_Predict(L.base_gbm, m)]

RegRank_PredictRaw(L, l, M, m) ==
  [off |-> RegRank_FindBufferOffset(L, l, M, m), err |-> NoErr]

\* ClearBuffer: the slots of the matrix are cleared, which needs its offset
RegRank_ClearBuffer(L, l, M, m) ==
  IF RegRank_FindBufferOffset(L, l, M, m) >= 0 THEN NoErr ELSE ErrClearBuffer

\* NumBoosterGroup of base_gbm: the num_booster_group it was given, 1 by default
RegRank_NumBoosterGroup(L) ==
  Max(1, atoi(LastValue(L.base_gbm.params, "num_booster_group", "1")))

\* PredictRaw with bst_group < 0: one PredictBuffer per booster group
RegRank_PredictCalls(L, off, m) ==
  [g \in 1..RegRank_NumBoosterGroup(L) |->
     PluginCall("Predict", L.base_gbm.nboost, g - 1, off, RegRank_PredictRawValue(L, m))]

\* Predict: raw prediction, then PredTransform
RegRank_Predict(L, l, M, m, ub) ==
  LET off == RegRank_FindBufferOffset(L, l, M, m)
      cp == RegRank_PredictCalls(L, off, m)
      c2 == PluginCall("PredTransform", L.base_gbm.nboost, -1, -1,
                       RegRank_PredictRawValue(L, m))
  IN IF DerefErr(L.obj_, ub) # NoErr
     THEN [off |-> off, calls |-> cp, err |-> DerefErr(L.obj_, ub)]
     ELSE [off |-> off, calls |-> Append(cp, c2), err |-> NoErr]

\* the loop over the booster groups: DoBoost for group g with the elements
\* [g*rows, (g+1)*rows) of the gradient vector
RegRank_BoostCalls(L, grad, rows, ngroup, off) ==
  [k \in 1..ngroup |->
     PluginCall("DoBoost", L.base_gbm.nboost + k - 1, k - 1, off,
                SubSeq(grad, (k - 1) * rows + 1, k * rows))]

\* the ClearBuffer loop as one call: the buffer indices offset+j it clears
RegRank_ClearCall(L, off, rows) ==
  PluginCall("ClearBuffer", L.base_gbm.nboost, -1, off, [j \in 1..rows |-> off + j - 1])

\* UpdateOneIter clearing when iter, not iter+1, is a multiple of the period
Mutant_RegRank_UpdateOneIter_ClearOnIter(L, l, M, iter, m, ub) ==
  LET off == RegRank_FindBufferOffset(L, l, M, m)
      rows == M[m].num_row
      cp == RegRank_PredictCalls(L, off, m)
  IN IF DerefErr(L.obj_, ub) # NoErr
     THEN [L |-> L, off |-> off, calls |-> cp, err |-> DerefErr(L.obj_, ub)]
     ELSE
       LET grad == Obj_GetGradient(L.obj_, RegRank_PredictRawValue(L, m), rows,
                                   L.base_gbm.nboost)
           cg == Append(cp, PluginCall("GetGradient", L.base_gbm.nboost, -1, -1, grad))
           ngroup == RegRank_NumBoosterGroup(L)
           cb == IF Len(grad) = rows
                 THEN <<PluginCall("DoBoost", L.base_gbm.nboost, 0, off, grad)>>
                 ELSE RegRank_BoostCalls(L, grad, rows, ngroup, off)
           L1 == [L EXCEPT !.base_gbm.nboost = @ + Len(cb)]
       IN IF Len(grad) # rows /\ Len(grad) # rows * ngroup
          THEN [L |-> L, off |-> off, calls |-> cg, err |-> ErrMClass]
          ELSE IF L.mparam.clear_period # 0
                  /\ iter % L.mparam.clear_period = 0
          THEN [L |-> L1, off |-> off,
                calls |-> IF RegRank_ClearBuffer(L1, l, M, m) = NoErr
                          THEN Append(cg \o cb, RegRank_ClearCall(L1, off, rows))
                          ELSE cg \o cb,
                err |-> RegRank_ClearBuffer(L1, l, M, m)]
          ELSE [L |-> L1, off |-> off, calls |-> cg \o cb, err |-> NoErr]

\* one RegRankBoostLearner::UpdateOneIter: predict, gradient (the objective
\* is given the number of boosters as iteration number), one DoBoost when the
\* gradient has one element per row and one per booster group otherwise,
\* then the periodic ClearBuffer
RegRank_UpdateOneIter(L, l, M, iter, m, ub) ==
  LET off == RegRank_FindBufferOffset(L, l, M, m)
      rows == M[m].num_row
      cp == RegRank_PredictCalls(L, off, m)
  IN IF DerefErr(L.obj_, ub) # NoErr
     THEN [L |-> L, off |-> off, calls |-> cp, err |-> DerefErr(L.obj_, ub)]
     ELSE
       LET grad == Obj_GetGradient(L.obj_, RegRank_PredictRawValue(L, m), rows,
                                   L.base_gbm.nboost)
           cg == Append(cp, PluginCall("GetGradient", L.base_gbm.nboost, -1, -1, grad))
           ngroup == RegRank_NumBoosterGroup(L)
           cb == IF Len(grad) = rows
                 THEN <<PluginCall("DoBoost", L.base_gbm.nboost, 0, off, grad)>>
                 ELSE RegRank_BoostCalls(L, grad, rows, ngroup, off)
           L1 == [L EXCEPT !.base_gbm.nboost = @ + Len(cb)]
       IN IF Len(grad) # rows /\ Len(grad) # rows * ngroup
          THEN [L |-> L, off |-> off, calls |-> cg, err |-> ErrMClass]
          ELSE IF L.mparam.clear_period # 0
                  /\ (iter + 1) % L.mparam.clear_period = 0
          THEN [L |-> L1, off |-> off,
                calls |-> IF RegRank_ClearBuffer(L1, l, M, m) = NoErr
                          THEN Append(cg \o cb, RegRank_ClearCall(L1, off, rows))
                          ELSE cg \o cb,
                err |-> RegRank_ClearBuffer(L1, l, M, m)]
          ELSE [L |-> L1, off |-> off, calls |-> cg \o cb, err |-> NoErr]

RECURSIVE RegRank_EvalLoop(_, _, _, _, _, _, _, _)
RegRank_EvalLoop(acc, L, l, M, evals, evname, ub, i) ==
  IF i > Len(evals) THEN acc
  ELSE
    LET off == RegRank_FindBufferOffset(L, l, M, evals[i])
        preds == RegRank_PredictRawValue(L, evals[i])
        cp == RegRank_PredictCalls(L, off, evals[i])
        c2 == PluginCall("EvalTransform", L.base_gbm.nboost, -1, -1, preds)
        c3 == PluginCall("Eval", L.base_gbm.nboost, -1, -1, preds)
        name == IF i <= Len(evname) THEN evname[i] ELSE "garbage"
    IN IF DerefErr(L.obj_, ub) # NoErr
       THEN [acc EXCEPT !.calls = @ \o cp, !.err = DerefErr(L.obj_, ub)]
       ELSE IF i > Len(evname) /\ ub = "crash"
       THEN [acc EXCEPT !.calls = @ \o Append(cp, c2), !.err = ErrOutOfRange]
       ELSE RegRank_EvalLoop(
              [acc EXCEPT !.segs = Append(@, EvalSet_Eval(name, preds)),
                          !.calls = @ \o cp \o <<c2, c3>>],
              L, l, M, evals, evname, ub, i + 1)

RegRank_EvalOneIter(L, l, M, iter, evals, evname, ub) ==
  LET a == RegRank_EvalLoop([segs |-> <<>>, calls |-> <<>>, err |-> NoErr],
                            L, l, M, evals, evname, ub, 1)
  IN [res |-> [head |-> "[" \o FormatNum(iter) \o "]", segs |-> a.segs],
      off |-> LookupsOf([i \in 1..Len(evals) |->
                           RegRank_FindBufferOffset(L, l, M, evals[i])]),
      calls |-> a.calls, err |-> a.err]

\* Evaluate: an unknown metric gives the pair ("", 0) before anything is
\* predicted; else Predict (raw prediction and PredTransform) and the score
RegRank_Evaluate(L, l, M, m, metric, ub) ==
  IF metric = "auto" /\ DerefErr(L.obj_, ub) # NoErr
  THEN [res |-> <<>>, off |-> 0, calls |-> <<>>, err |-> DerefErr(L.obj_, ub)]
  ELSE
    LET name == IF metric = "auto" THEN Obj_DefaultEvalMetric(L.obj_.name) ELSE metric
        ev == CreateEvaluator(name)
        off == RegRank_FindBufferOffset(L, l, M, m)
        preds == RegRank_PredictRawValue(L, m)
        cp == RegRank_PredictCalls(L, off, m)
        c2 == PluginCall("PredTransform", L.base_gbm.nboost, -1, -1, preds)
        c3 == PluginCall("Eval", L.base_gbm.nboost, -1, -1, preds)
    IN IF ev = "NULL" THEN [res |-> <<"", 0>>, off |-> 0, calls |-> <<>>, err |-> NoErr]
       ELSE IF DerefErr(L.obj_, ub) # NoErr
       THEN [res |-> <<>>, off |-> off, calls |-> cp, err |-> DerefErr(L.obj_, ub)]
       ELSE [res |-> <<name, EvalSet_Eval(name, preds)>>, off |-> off,
             calls |-> cp \o <<c2, c3>>, err |-> NoErr]

\* what InteractPredict leaves in preds_: one value per row of the matrix,
\* base_score plus the booster's trial prediction, after PredTransform
RegRank_InteractPredictValue(L, M, m) ==
  Obj_PredTransform([base |-> L.mparam.base_score,
                     gbm |-> Gbm_InteractPredict(L.base_gbm, m),
                     size |-> M[m].num_row])

\* preds_ after the InteractPredict loop of UpdateInteract: the value for the
\* matrix of the last cache entry; with no entry, what an earlier call left
RegRank_InteractPreds(L, M) ==
  IF L.cache_ = <<>> THEN "preds_ of an earlier call"
  ELSE RegRank_InteractPredictValue(L, M, L.cache_[Len(L.cache_)].mat_)

\* InteractPredict of one matrix: its offset must exist; the trial
\* predictions of its rows, then PredTransform
RegRank_InteractPredict(L, l, M, m, ub) ==
  LET off == RegRank_FindBufferOffset(L, l, M, m)
      c1 == PluginCall("InteractPredict", L.base_gbm.nboost, -1, off, m)
      c2 == PluginCall("PredTransform", L.base_gbm.nboost, -1, -1, m)
  IN IF off < 0 THEN [calls |-> <<>>, err |-> ErrInteract]
     ELSE IF DerefErr(L.obj_, ub) # NoErr
     THEN [calls |-> <<c1>>, err |-> DerefErr(L.obj_, ub)]
     ELSE [calls |-> <<c1, c2>>, err |-> NoErr]

\* the loop of InteractPredict over the cache entries from index i on
RECURSIVE RegRank_InteractPredictLoop(_, _, _, _, _, _)
RegRank_InteractPredictLoop(acc, L, l, M, ub, i) ==
  IF i > Len(L.cache_) THEN acc
  ELSE
    LET r == RegRank_InteractPredict(L, l, M, L.cache_[i].mat_, ub)
        a1 == [calls |-> acc.calls \o r.calls, err |-> r.err]
    IN IF r.err # NoErr THEN a1
       ELSE RegRank_InteractPredictLoop(a1, L, l, M, ub, i + 1)

\* the loop of InteractRePredict over the cache entries from index i on
RECURSIVE RegRank_InteractRePredictLoop(_, _, _, _, _)
RegRank_InteractRePredictLoop(acc, L, l, M, i) ==
  IF i > Len(L.cache_) THEN acc
  ELSE
    LET m == L.cache_[i].mat_
        off == RegRank_FindBufferOffset(L, l, M, m)
    IN IF off < 0 THEN [acc EXCEPT !.err = ErrInteract]
       ELSE RegRank_InteractRePredictLoop(
              [acc EXCEPT !.calls = Append(@, PluginCall("InteractRePredict",
                                                         L.base_gbm.nboost, -1, off, m))],
              L, l, M, i + 1)

\* UpdateInteract without the return that ends the "remove" action
Mutant_UpdateInteract_NoReturn(L, l, M, action, m, ub) ==
  LET p == RegRank_InteractPredictLoop([calls |-> <<>>, err |-> NoErr], L, l, M, ub, 1)
      Ld == IF action = "remove" THEN [L EXCEPT !.base_gbm = Gbm_DelteBooster(@)] ELSE L
      cd == IF action = "remove"
            THEN Append(p.calls, PluginCall("DelteBooster", L.base_gbm.nboost, -1, -1, <<>>))
            ELSE p.calls
      off == RegRank_FindBufferOffset(L, l, M, m)
      preds == RegRank_InteractPreds(L, M)
      grad == Obj_GetGradient(L.obj_, preds, M[m].num_row, Ld.base_gbm.nboost)
      cg == cd \o <<PluginCall("GetGradient", Ld.base_gbm.nboost, -1, -1, grad),
                    PluginCall("DoBoost", Ld.base_gbm.nboost, 0, off, grad)>>
      Lb == [Ld EXCEPT !.base_gbm.nboost = @ + 1]
      q == RegRank_InteractRePredictLoop([calls |-> cg, err |-> NoErr], Lb, l, M, 1)
  IN IF p.err # NoErr THEN [L |-> L, off |-> off, calls |-> p.calls, err |-> p.err]
     ELSE IF DerefErr(L.obj_, ub) # NoErr
     THEN [L |-> Ld, off |-> off, calls |-> cd, err |-> DerefErr(L.obj_, ub)]
     ELSE [L |-> Lb, off |-> off, calls |-> q.calls, err |-> q.err]

\* UpdateInteract: trial prediction of every cached matrix; "remove" drops
\* the last booster and returns; any other action computes the gradient from
\* preds_ as the loop left it, boosts group 0 and re-predicts every cached
\* matrix
RegRank_UpdateInteract(L, l, M, action, m, ub) ==
  LET p == RegRank_InteractPredictLoop([calls |-> <<>>, err |-> NoErr], L, l, M, ub, 1)
      off == RegRank_FindBufferOffset(L, l, M, m)
      preds == RegRank_InteractPreds(L, M)
      grad == Obj_GetGradient(L.obj_, preds, M[m].num_row, L.base_gbm.nboost)
      cg == p.calls \o <<PluginCall("GetGradient", L.base_gbm.nboost, -1, -1, grad),
                         PluginCall("DoBoost", L.base_gbm.nboost, 0, off, grad)>>
      Lb == [L EXCEPT !.base_gbm.nboost = @ + 1]
      q == RegRank_InteractRePredictLoop([calls |-> cg, err |-> NoErr], Lb, l, M, 1)
  IN IF p.err # NoErr THEN [L |-> L, off |-> off, calls |-> p.calls, err |-> p.err]
     ELSE IF action = "remove"
     THEN [L |-> [L EXCEPT !.base_gbm = Gbm_DelteBooster(@)], off |-> off,
           calls |-> Append(p.calls,
                            PluginCall("DelteBooster", L.base_gbm.nboost, -1, -1, <<>>)),
           err |-> NoErr]
     ELSE IF DerefErr(L.obj_, ub) # NoErr
     THEN [L |-> L, off |-> off, calls |-> p.calls, err |-> DerefErr(L.obj_, ub)]
     ELSE [L |-> Lb, off |-> off, calls |-> q.calls, err |-> q.err]

\* the member functions that run one worker per row of a matrix, and those
\* of them whose worker writes preds[j]
LoopOps == {"PredictBuffer", "ClearBuffer", "InteractPredict", "InteractRePredict"}
LoopOpsWriting == {"PredictBuffer", "InteractPredict"}

\* the row worker passing the offset itself as buffer index
Mutant_RowCall_SameSlot(L, fn, off, j, g) ==
  PluginCall(fn, L.base_gbm.nboost, IF fn = "PredictBuffer" THEN g ELSE -1, off, j)

\* the body of a per-row loop for row j: the call on base_gbm for feature
\* row j with buffer index buffer_offset + j, -1 in PredictBuffer when the
\* matrix has no offset; PredictBuffer passes the booster group g it was
\* given (and the root of row j, which the matrix decides; it is not part of
\* the record), the other loops have no group
RegRank_RowCall(L, fn, off, j, g) ==
  PluginCall(fn, L.base_gbm.nboost, IF fn = "PredictBuffer" THEN g ELSE -1,
             IF off >= 0 THEN off + j ELSE -1, j)

\* what a loop function does before its loop: the assertion on the offset
RegRank_LoopEntry(fn, off) ==
  CASE fn = "ClearBuffer" /\ off < 0 -> ErrClearBuffer
    [] fn \in {"InteractPredict", "InteractRePredict"} /\ off < 0 -> ErrInteract
    [] OTHER -> NoErr

\* ================================================================ actions
\* dispatch of a call on the learner's generation
IsCur(l) == learner[l].kind = KindCur
IsLeg(l) == learner[l].kind = KindLeg
Constructed(l) == learner[l].kind # KindNone

\* the booster of a learner, whichever member holds it
Gbm(L) == IF L.kind = KindCur THEN L.gbm_ ELSE L.base_gbm

UB == {"crash", "proceed"}

\* model streams written by an earlier SaveModel of each generation
CurStreams ==
  {<<[base_score |-> 847, num_feature |-> 2, num_class |-> 0, reserved |-> 7],
     "binary:logistic", "gblinear", 1>>}
LegStreams ==
  {<<1, [base_score |-> 847, loss_type |-> 1, num_feature |-> 2, num_class |-> 0,
         clear_period |-> 0, reserved |-> 7], "binary:logistic">>}
StreamsFor(l) == IF IsCur(l) THEN CurStreams ELSE LegStreams

\* lists of matrix handles of length at most n
MatLists(n) == UNION {[1..k -> Mats] : k \in 0..n}

CalledOut(op, l, arg, ret, out, calls) ==
  last' = [op |-> op, l |-> l, arg |-> arg, ret |-> ret, out |-> out, calls |-> calls]

Called(op, l, arg, ret) == CalledOut(op, l, arg, ret, <<>>, <<>>)

SetParam(l, name, val) ==
  /\ err = NoErr /\ Constructed(l)
  /\ Len(learner[l].cfg_) < MaxCfg
  /\ learner' = [learner EXCEPT ![l] =
                   IF IsCur(l) THEN BoostLearner_SetParam(@, name, val)
                   ELSE RegRank_SetParam(@, name, val)]
  /\ Called("SetParam", l, <<name, val>>, 0)
  /\ UNCHANGED <<mat, err>>

SetCacheData(l, mats) ==
  /\ err = NoErr /\ Constructed(l)
  /\ Len(learner[l].cfg_) < MaxCfg
  /\ Len(Gbm(learner[l]).params) < MaxCfg + Len(learner[l].cfg_)
  /\ LET r == IF IsCur(l) THEN BoostLearner_SetCacheData(learner[l], l, mat, mats)
              ELSE RegRank_SetCacheData(learner[l], l, mat, mats)
     IN /\ learner' = [learner EXCEPT ![l] = r.L]
        /\ mat' = r.M
        /\ err' = r.err
  /\ Called("SetCacheData", l, mats, 0)

InitTrainer(l) ==
  /\ err = NoErr /\ IsLeg(l)
  /\ learner[l].obj_.serial < MaxAlloc
  /\ LET r == RegRank_InitTrainer(learner[l])
     IN /\ learner' = [learner EXCEPT ![l] = r.L]
        /\ err' = r.err
  /\ Called("InitTrainer", l, 0, 0)
  /\ UNCHANGED mat

InitModel(l, ub) ==
  /\ err = NoErr /\ Constructed(l)
  /\ LET r == IF IsCur(l) THEN BoostLearner_InitModel(learner[l], ub)
              ELSE RegRank_InitModel(learner[l])
     IN /\ learner' = [learner EXCEPT ![l] = r.L]
        /\ err' = r.err
  /\ Called("InitModel", l, 0, 0)
  /\ UNCHANGED mat

LoadModel(l, fi, ub) ==
  /\ err = NoErr /\ Constructed(l)
  /\ LET r == IF IsCur(l) THEN BoostLearner_LoadModel(learner[l], fi, ub)
              ELSE RegRank_LoadModel(learner[l], fi)
     IN /\ learner' = [learner EXCEPT ![l] = r.L]
        /\ err' = r.err
  /\ Called("LoadModel", l, fi, 0)
  /\ UNCHANGED mat

\* SaveModel is const: it writes the stream and leaves the learner alone
SaveModel(l, ub) ==
  /\ err = NoErr /\ Constructed(l)
  /\ LET r == IF IsCur(l) THEN BoostLearner_SaveModel(learner[l], ub)
              ELSE RegRank_SaveModel(learner[l])
     IN /\ err' = r.err
        /\ CalledOut("SaveModel", l, 0, 0, r.fo, r.calls)
  /\ UNCHANGED <<learner, mat>>

FindBufferOffset(l, m) ==
  /\ err = NoErr /\ Constructed(l)
  /\ Called("FindBufferOffset", l, m,
            IF IsCur(l) THEN BoostLearner_FindBufferOffset(learner[l], l, mat, m)
            ELSE RegRank_FindBufferOffset(learner[l], l, mat, m))
  /\ UNCHANGED <<learner, mat, err>>

Predict(l, m, ub) ==
  /\ err = NoErr /\ Constructed(l)
  /\ LET r == IF IsCur(l) THEN BoostLearner_Predict(learner[l], l, mat, m, ub)
              ELSE RegRank_Predict(learner[l], l, mat, m, ub)
     IN /\ err' = r.err
        /\ CalledOut("Predict", l, m, r.off, <<>>, r.calls)
  /\ UNCHANGED <<learner, mat>>

UpdateOneIter(l, iter, m, ub) ==
  /\ err = NoErr /\ Constructed(l)
  /\ Gbm(learner[l]).nboost < MaxIter
  /\ LET r == IF IsCur(l) THEN BoostLearner_UpdateOneIter(learner[l], l, mat, iter, m, ub)
              ELSE RegRank_UpdateOneIter(learner[l], l, mat, iter, m, ub)
     IN /\ learner' = [learner EXCEPT ![l] = r.L]
        /\ err' = r.err
        /\ CalledOut("UpdateOneIter", l, <<iter, m>>, r.off, <<>>, r.calls)
  /\ UNCHANGED mat

EvalOneIter(l, iter, evals, evname, ub) ==
  /\ err = NoErr /\ Constructed(l)
  /\ LET r == IF IsCur(l)
              THEN BoostLearner_EvalOneIter(learner[l], l, mat, iter, evals, evname, ub)
              ELSE RegRank_EvalOneIter(learner[l], l, mat, iter, evals, evname, ub)
     IN /\ err' = r.err
        /\ CalledOut("EvalOneIter", l, <<iter, evals, evname>>, r.off,
                     IF r.err = NoErr THEN r.res ELSE <<>>, r.calls)
  /\ UNCHANGED <<learner, mat>>

Evaluate(l, m, metric, ub) ==
  /\ err = NoErr /\ Constructed(l)
  /\ LET r == IF IsCur(l) THEN BoostLearner_Evaluate(learner[l], l, mat, m, metric, ub)
              ELSE RegRank_Evaluate(learner[l], l, mat, m, metric, ub)
     IN /\ err' = r.err
        /\ CalledOut("Evaluate", l, <<m, metric>>, r.off, r.res, r.calls)
  /\ UNCHANGED <<learner, mat>>

UpdateInteract(l, action, m, ub) ==
  /\ err = NoErr /\ IsLeg(l)
  /\ action # "remove" => learner[l].base_gbm.nboost < MaxIter
  /\ LET r == RegRank_UpdateInteract(learner[l], l, mat, action, m, ub)
     IN /\ learner' = [learner EXCEPT ![l] = r.L]
        /\ err' = r.err
        /\ CalledOut("UpdateInteract", l, <<action, m>>, r.off, <<>>, r.calls)
  /\ UNCHANGED mat

\* the calls the row workers of the running loop have made
RowCalls == SelectSeq(last.calls, LAMBDA c : c.fn = last.op)

\* the rows of the running loop are all done
RowsDone == Len(RowCalls) = mat[last.arg[1]].num_row

\* a loop function is running: a row of the matrix has no worker done, or
\* InteractPredict has not yet made the PredTransform call that follows its
\* loop
InLoop ==
  /\ last.op \in LoopOps /\ err = NoErr
  /\ \/ ~RowsDone
     \/ last.op = "InteractPredict" /\ Len(last.calls) = Len(RowCalls)

\* a loop function is entered for matrix m: its offset is looked up (by
\* PredictRaw for PredictBuffer, which it calls once per booster group g)
\* and asserted, the row workers are still to run
BeginLoop(l, fn, m, g) ==
  /\ err = NoErr /\ IsLeg(l) /\ ~InLoop
  /\ IF fn = "PredictBuffer"
     THEN g \in 0..(RegRank_NumBoosterGroup(learner[l]) - 1)
     ELSE g = -1
  /\ LET off == RegRank_FindBufferOffset(learner[l], l, mat, m)
     IN /\ err' = RegRank_LoopEntry(fn, off)
        /\ CalledOut(fn, l, <<m, g>>, off, <<>>, <<>>)
  /\ UNCHANGED <<learner, mat>>

\* the worker for row j of the running loop runs, in any order among the
\* rows: last.calls gets its call on base_gbm, last.out the index of preds
\* it writes
RowWorker(j) ==
  /\ last.op \in LoopOps /\ err = NoErr /\ ~RowsDone
  /\ j \in 0..(mat[last.arg[1]].num_row - 1)
  /\ \A i \in 1..Len(last.calls) : last.calls[i].data # j
  /\ last' = [last EXCEPT
                !.calls = Append(@, RegRank_RowCall(learner[last.l], last.op, last.ret,
                                                    j, last.arg[2])),
                !.out = IF last.op \in LoopOpsWriting THEN Append(@, j) ELSE @]
  /\ UNCHANGED <<learner, mat, err>>

\* InteractPredict after its loop is joined: obj_->PredTransform(preds)
AfterLoop(ub) ==
  /\ last.op = "InteractPredict" /\ err = NoErr
  /\ RowsDone /\ Len(last.calls) = Len(RowCalls)
  /\ LET L == learner[last.l]
     IN /\ err' = DerefErr(L.obj_, ub)
        /\ last' = [last EXCEPT !.calls =
                      IF DerefErr(L.obj_, ub) # NoErr THEN @
                      ELSE Append(@, PluginCall("PredTransform", L.base_gbm.nboost, -1, -1,
                                     RegRank_InteractPredictValue(L, mat, last.arg[1])))]
  /\ UNCHANGED <<learner, mat>>

\* configuration errors reach the caller as a failure of the call; the
\* caller goes on with the learner as the failed call left it
ConfigErrors == {ErrUnknownObj, ErrUnknownGbm}

CatchError ==
  /\ err \in ConfigErrors
  /\ err' = NoErr
  /\ last' = [last EXCEPT !.op = "CatchError"]
  /\ UNCHANGED <<learner, mat>>

\* the owner of a matrix gives it another number of rows
ResizeMatrix(m, r) ==
  /\ err = NoErr
  /\ r # mat[m].num_row
  /\ mat' = [mat EXCEPT ![m].num_row = r]
  /\ Called("ResizeMatrix", "", m, r)
  /\ UNCHANGED <<learner, err>>

\* ================================================================= specs
Unconstructed == [kind |-> KindNone]

Construct(k) == IF k = KindCur THEN BoostLearner_Init ELSE RegRank_Init

NoCall == [op |-> "none", l |-> "", arg |-> 0, ret |-> 0, out |-> <<>>, calls |-> <<>>]

Shape(r, c) == [num_row |-> r, num_col |-> c, cache_learner_ptr_ |-> NoLearner]

\* --- the cache registry: two learners of one generation and the matrices
\* they register, look up and see resized
InitCache ==
  /\ \E k \in {KindCur, KindLeg} : learner = [l \in Learners |-> Construct(k)]
  /\ mat = [m \in Mats |-> Shape(1, 1)]
  /\ err = NoErr
  /\ last = NoCall

NextCache ==
  \/ \E mats \in MatLists(MaxMats) : SetCacheData("L1", mats)
  \/ \E m \in Mats : SetCacheData("L2", <<m>>)
  \/ \E m \in Mats, r \in 1..MaxRow : ResizeMatrix(m, r)
  \/ \E l \in Learners, m \in Mats : FindBufferOffset(l, m)

SpecCache == InitCache /\ [][NextCache]_vars

\* --- training, evaluation and prediction on matrices that are registered,
\* unregistered or resized, by a learner of either generation
InitTrain ==
  /\ \E k \in {KindCur, KindLeg} :
       learner = [l \in Learners |-> IF l = "L1" THEN Construct(k) ELSE Unconstructed]
  /\ mat = [m \in Mats |-> Shape(1, 1)]
  /\ err = NoErr
  /\ last = NoCall

NextTrain ==
  \/ SetParam("L1", "clear_period", "2")
  \/ SetCacheData("L1", <<"m1">>)
  \/ \E r \in 1..MaxRow : ResizeMatrix("m1", r)
  \/ InitTrainer("L1")
  \/ \E ub \in UB : InitModel("L1", ub)
  \/ \E i \in 0..(MaxIter - 1), ub \in UB : UpdateOneIter("L1", i, "m1", ub)
  \/ \E ub \in UB : EvalOneIter("L1", 0, <<"m1">>, <<"train">>, ub)
  \/ \E ub \in UB : Evaluate("L1", "m1", "auto", ub)
  \/ \E ub \in UB : Predict("L1", "m1", ub)

SpecTrain == InitTrain /\ [][NextTrain]_vars

\* --- registration at any point of the life cycle of a learner of either
\* generation: before or after its objective and booster exist
InitLife ==
  /\ \E k \in {KindCur, KindLeg} :
       learner = [l \in Learners |-> IF l = "L1" THEN Construct(k) ELSE Unconstructed]
  /\ mat = [m \in Mats |-> IF m = "m1" THEN Shape(1, 1) ELSE Shape(MaxRow, MaxCol)]
  /\ err = NoErr
  /\ last = NoCall

NextLife ==
  \/ SetParam("L1", "bst:num_feature", "3")
  \/ \E mats \in MatLists(MaxMats) : SetCacheData("L1", mats)
  \/ InitTrainer("L1")
  \/ \E ub \in UB : InitModel("L1", ub)
  \/ \E fi \in StreamsFor("L1"), ub \in UB : LoadModel("L1", fi, ub)
  \/ \E m \in Mats, ub \in UB : Predict("L1", m, ub)

SpecLife == InitLife /\ [][NextLife]_vars

\* --- configuration of a current-generation learner before and after its
\* objective and booster are created
CfgPairs ==
  {<<"objective", "binary:logistic">>, <<"objective", "reg:linear">>,
   <<"booster", "gblinear">>, <<"base_score", "0.7">>}

InitCfg ==
  /\ learner = [l \in Learners |-> IF l = "L1" THEN Construct(KindCur) ELSE Unconstructed]
  /\ mat = [m \in Mats |-> Shape(1, 1)]
  /\ err = NoErr
  /\ last = NoCall

NextCfg ==
  \/ \E p \in CfgPairs : SetParam("L1", p[1], p[2])
  \/ SetCacheData("L1", <<"m1">>)
  \/ \E ub \in UB : InitModel("L1", ub)
  \/ \E fi \in CurStreams, ub \in UB : LoadModel("L1", fi, ub)

SpecCfg == InitCfg /\ [][NextCfg]_vars

\* --- model set-up of a legacy learner: configuration, InitTrainer,
\* InitModel and LoadModel in any order and number
InitSetup ==
  /\ learner = [l \in Learners |-> IF l = "L1" THEN Construct(KindLeg) ELSE Unconstructed]
  /\ mat = [m \in Mats |-> Shape(1, 1)]
  /\ err = NoErr
  /\ last = NoCall

NextSetup ==
  \/ \E p \in {<<"objective", "binary:logistic">>, <<"base_score", "0.7">>} :
       SetParam("L1", p[1], p[2])
  \/ InitTrainer("L1")
  \/ \E ub \in UB : InitModel("L1", ub)
  \/ \E fi \in LegStreams, ub \in UB : LoadModel("L1", fi, ub)
  \/ \E ub \in UB : Predict("L1", "m1", ub)

SpecSetup == InitSetup /\ [][NextSetup]_vars

\* --- persistence: a learner of either generation is configured and set up
\* or loaded, its model is saved, and a second learner of the same generation
\* loads the stream, whole or cut short, and saves it again
SaveCfgPairs == {<<"objective", "binary:logistic">>, <<"base_score", "0.7">>}

InitSave ==
  /\ \E k \in {KindCur, KindLeg} : learner = [l \in Learners |-> Construct(k)]
  /\ mat = [m \in Mats |-> Shape(1, 1)]
  /\ err = NoErr
  /\ last = NoCall

NextSave ==
  \/ \E p \in SaveCfgPairs : SetParam("L1", p[1], p[2])
  \/ \E ub \in UB : InitModel("L1", ub)
  \/ \E fi \in StreamsFor("L1"), ub \in UB : LoadModel("L1", fi, ub)
  \/ \E l \in Learners, ub \in UB : SaveModel(l, ub)
  \/ \E k \in 0..4, ub \in UB :
       /\ last.op = "SaveModel" /\ last.l = "L1" /\ k <= Len(last.out)
       /\ LoadModel("L2", SubSeq(last.out, 1, k), ub)

SpecSave == InitSave /\ [][NextSave]_vars

\* --- boosting rounds of a learner of either generation, with one booster
\* group or two, on a matrix of MaxRow rows
BoostCfgPairs == {<<"num_class", "2">>, <<"objective", "multi:softmax">>}

InitBoost ==
  /\ \E k \in {KindCur, KindLeg} :
       learner = [l \in Learners |-> IF l = "L1" THEN Construct(k) ELSE Unconstructed]
  /\ mat = [m \in Mats |-> IF m = "m1" THEN Shape(MaxRow, 1) ELSE Shape(1, 1)]
  /\ err = NoErr
  /\ last = NoCall

NextBoost ==
  \/ \E p \in BoostCfgPairs : SetParam("L1", p[1], p[2])
  \/ SetCacheData("L1", <<"m1">>)
  \/ InitTrainer("L1")
  \/ \E ub \in UB : InitModel("L1", ub)
  \/ \E i \in 0..(MaxIter - 1), ub \in UB : UpdateOneIter("L1", i, "m1", ub)

SpecBoost == InitBoost /\ [][NextBoost]_vars

\* --- evaluation by a learner of either generation: reports over lists of
\* matrices, and single scores for known, unknown and default metrics
EvNames(n) == [i \in 1..n |-> "eval-" \o FormatNum(i)]

Metrics == {"auto", "rmse", "nosuchmetric"}

InitEval ==
  /\ \E k \in {KindCur, KindLeg} :
       learner = [l \in Learners |-> IF l = "L1" THEN Construct(k) ELSE Unconstructed]
  /\ mat = [m \in Mats |-> Shape(1, 1)]
  /\ err = NoErr
  /\ last = NoCall

NextEval ==
  \/ SetCacheData("L1", <<"m1">>)
  \/ InitTrainer("L1")
  \/ \E ub \in UB : InitModel("L1", ub)
  \/ \E ub \in UB : UpdateOneIter("L1", 0, "m1", ub)
  \/ \E i \in 0..(MaxIter - 1), evals \in MatLists(MaxMats - 1), ub \in UB :
       EvalOneIter("L1", i, evals, EvNames(Len(evals)), ub)
  \/ \E ub \in UB : EvalOneIter("L1", 0, <<"m1", "m2">>, EvNames(1), ub)
  \/ \E m \in Mats, metric \in Metrics, ub \in UB : Evaluate("L1", m, metric, ub)
  \/ \E m \in Mats, ub \in UB : Predict("L1", m, ub)

SpecEval == InitEval /\ [][NextEval]_vars

\* --- the interactive mode of a legacy learner on its cached matrices
InteractActions == {"remove", "update"}

InitInteract ==
  /\ learner = [l \in Learners |-> IF l = "L1" THEN Construct(KindLeg) ELSE Unconstructed]
  /\ mat = [m \in Mats |-> Shape(1, 1)]
  /\ err = NoErr
  /\ last = NoCall

NextInteract ==
  \/ \E mats \in MatLists(MaxMats - 1) : SetCacheData("L1", mats)
  \/ InitTrainer("L1")
  \/ \E ub \in UB : InitModel("L1", ub)
  \/ \E ub \in UB : UpdateOneIter("L1", 0, "m1", ub)
  \/ \E a \in InteractActions, m \in Mats, ub \in UB : UpdateInteract("L1", a, m, ub)
  \/ \E r \in 1..MaxRow : ResizeMatrix("m2", r)

SpecInteract == InitInteract /\ [][NextInteract]_vars

\* --- the per-row loops of a legacy learner with one booster group or two:
\* the driver registers and resizes matrices and creates the objective
\* between loops; within a loop the row workers run in any order and the
\* function goes on when all of them are done
InitRows ==
  /\ learner = [l \in Learners |-> IF l = "L1" THEN Construct(KindLeg) ELSE Unconstructed]
  /\ mat = [m \in Mats |-> Shape(MaxRow, 1)]
  /\ err = NoErr
  /\ last = NoCall

LoopGroups == {-1, 0, 1}

NextRows ==
  \/ \E mats \in MatLists(MaxMats - 1) : ~InLoop /\ SetCacheData("L1", mats)
  \/ ~InLoop /\ learner["L1"].cfg_ = <<>> /\ SetParam("L1", "num_class", "2")
  \/ ~InLoop /\ InitTrainer("L1")
  \/ \E r \in 1..MaxRow : ~InLoop /\ ResizeMatrix("m1", r)
  \/ \E fn \in LoopOps, m \in Mats, g \in LoopGroups : BeginLoop("L1", fn, m, g)
  \/ \E j \in 0..(MaxRow - 1) : RowWorker(j)
  \/ \E ub \in UB : AfterLoop(ub)

SpecRows == InitRows /\ [][NextRows]_vars

\* --- boosting rounds of a legacy learner configured once with a clear
\* period of 0, 1 or 2, or not at all, on either of two matrices of MaxRow
\* rows, one or both of them cached
ClearPeriods == {"0", "1", "2"}

InitClear ==
  /\ learner = [l \in Learners |-> IF l = "L1" THEN Construct(KindLeg) ELSE Unconstructed]
  /\ mat = [m \in Mats |-> Shape(MaxRow, 1)]
  /\ err = NoErr
  /\ last = NoCall

NextClear ==
  \/ \E p \in ClearPeriods :
       learner["L1"].cfg_ = <<>> /\ SetParam("L1", "clear_period", p)
  \/ \E mats \in {<<"m1">>, <<"m2", "m1">>} : SetCacheData("L1", mats)
  \/ InitTrainer("L1")
  \/ \E ub \in UB : InitModel("L1", ub)
  \/ \E i \in 0..(MaxIter - 1), m \in Mats, ub \in UB : UpdateOneIter("L1", i, m, ub)

SpecClear == InitClear /\ [][NextClear]_vars

\* --- set-up of a current-generation learner under objective and booster
\* names the factories know or do not know; the caller of a failed InitModel
\* may correct the names and call again
InitCfgPairs ==
  {<<"booster", "nosuchbooster">>, <<"booster", "gbtree">>,
   <<"objective", "nosuchobjective">>, <<"objective", "binary:logistic">>}

InitInit ==
  /\ learner = [l \in Learners |-> IF l = "L1" THEN Construct(KindCur) ELSE Unconstructed]
  /\ mat = [m \in Mats |-> Shape(1, 1)]
  /\ err = NoErr
  /\ last = NoCall

NextInit ==
  \/ \E p \in InitCfgPairs : SetParam("L1", p[1], p[2])
  \/ \E ub \in UB : InitModel("L1", ub)
  \/ CatchError
  \/ \E ub \in UB : Predict("L1", "m1", ub)
  \/ \E ub \in UB : SaveModel("L1", ub)

SpecInit == InitInit /\ [][NextInit]_vars

\* ================================================================ claims
\* the handles of a list, each once, in the order of their first occurrence
RECURSIVE FirstOccurrences(_)
FirstOccurrences(mats) ==
  IF mats = <<>> THEN <<>>
  ELSE LET front == FirstOccurrences(SubSeq(mats, 1, Len(mats) - 1))
           x == mats[Len(mats)]
       IN IF \E i \in 1..Len(front) : front[i] = x THEN front ELSE Append(front, x)

RECURSIVE SeqSum(_)
SeqSum(s) == IF s = <<>> THEN 0 ELSE s[1] + SeqSum(Tail(s))

Slots(e) == e.buffer_offset_ .. (e.buffer_offset_ + e.num_row_ - 1)

IsRegistered(L, m) == \E i \in 1..Len(L.cache_) : L.cache_[i].mat_ = m
EntryOf(L, m) == L.cache_[CHOOSE i \in 1..Len(L.cache_) : L.cache_[i].mat_ = m]

\* the pair a learner handed to its booster's configuration last
LastPassed(L) ==
  IF L.kind = KindCur THEN L.cfg_[Len(L.cfg_)]
  ELSE L.base_gbm.params[Len(L.base_gbm.params)]

\* C1: after an accepted SetCacheData(mats) the cache holds one entry per
\* distinct handle in order of first occurrence, the offsets start at 0 and
\* each is the previous offset plus the previous registered row count, the
\* slot ranges are pairwise disjoint and cover exactly [0, total), and total
\* is the value passed as num_pbuffer.
C1_CachePartition ==
  \A l \in Learners :
    LET L == learner[l]
        c == L.cache_
        total == SeqSum([i \in 1..Len(c) |-> c[i].num_row_])
    IN /\ \A i \in 1..Len(c) :
            c[i].buffer_offset_ = IF i = 1 THEN 0
                                  ELSE c[i - 1].buffer_offset_ + c[i - 1].num_row_
       /\ \A i, j \in 1..Len(c) :
            i # j => c[i].mat_ # c[j].mat_ /\ Slots(c[i]) \cap Slots(c[j]) = {}
       /\ UNION {Slots(c[i]) : i \in 1..Len(c)} = 0..(total - 1)
       /\ (last.op = "SetCacheData" /\ last.l = l /\ err = NoErr) =>
            /\ [i \in 1..Len(c) |-> c[i].mat_] = FirstOccurrences(last.arg)
            /\ \A i \in 1..Len(c) : c[i].num_row_ = mat[c[i].mat_].num_row
            /\ LastPassed(L)[1] = "num_pbuffer"
            /\ atoi(LastPassed(L)[2]) = total

\* C1 witness: a list naming a handle twice has been registered, two entries
W1_DuplicateRegistered ==
  /\ last.op = "SetCacheData" /\ last.l = "L1" /\ err = NoErr
  /\ Len(last.arg) = 3 /\ last.arg[1] = last.arg[3]
  /\ Len(learner["L1"].cache_) = 2
  /\ learner["L1"].cache_[2].buffer_offset_ = MaxRow

\* C2: a SetCacheData call made while the cache holds an entry fails with
\* "can only call cache data once" and changes neither a learner nor a matrix;
\* a call made while the cache is empty is accepted.
C2_CacheOnce ==
  [][\A l \in Learners :
       (last'.op = "SetCacheData" /\ last'.l = l) =>
         IF Len(learner[l].cache_) > 0
         THEN err' = ErrCacheOnce /\ learner' = learner /\ mat' = mat
         ELSE err' = NoErr]_vars

\* C2 witness: a second registration has been refused
W2_SecondCallRefused ==
  /\ last.op = "SetCacheData" /\ err = ErrCacheOnce
  /\ Len(learner[last.l].cache_) > 0

\* C3: FindBufferOffset returns the registered offset exactly when the
\* matrix is in this learner's cache, its back-reference is this learner and
\* its row count is the registered one, and -1 otherwise; the call changes
\* neither the learner nor the matrix.
C3_LookupValue ==
  last.op = "FindBufferOffset" =>
    LET L == learner[last.l]
        m == last.arg
    IN IF /\ IsRegistered(L, m)
          /\ mat[m].cache_learner_ptr_ = last.l
          /\ EntryOf(L, m).num_row_ = mat[m].num_row
       THEN last.ret = EntryOf(L, m).buffer_offset_
       ELSE last.ret = -1

C3_Lookup ==
  /\ []C3_LookupValue
  /\ [][last'.op = "FindBufferOffset" => (learner' = learner /\ mat' = mat)]_vars

\* C3 witness: a registered matrix whose row count changed is looked up by
\* its owner
W3_StaleLookup ==
  /\ last.op = "FindBufferOffset" /\ last.ret = -1
  /\ IsRegistered(learner[last.l], last.arg)
  /\ mat[last.arg].cache_learner_ptr_ = last.l
  /\ EntryOf(learner[last.l], last.arg).num_row_ # mat[last.arg].num_row

\* a learner whose objective and booster exist and whose model is set up
Ready(L) ==
  /\ L.kind # KindNone
  /\ L.obj_.ptr = "live" /\ Gbm(L).ptr = "live" /\ Gbm(L).model # "none"

PathOps == {"UpdateOneIter", "EvalOneIter", "Evaluate", "Predict"}

\* C4: UpdateOneIter, EvalOneIter, Evaluate and Predict, called on a ready
\* learner with a matrix that has no valid cache entry (offset -1), end
\* without a fatal error, for every clear_period and iteration index.
C4_StaleNeverFatal ==
  (last.op \in PathOps /\ last.ret = -1 /\ Ready(learner[last.l])) => err = NoErr

\* the num_pbuffer a booster has been given, "unset" when it got none
NumPbufferReceived(L) == LastValue(Gbm(L).params, "num_pbuffer", "unset")

\* C5: whenever the booster predicts with a non-negative buffer offset it
\* has been given num_pbuffer equal to the total registered row count,
\* whether SetCacheData came before or after the booster was created.
C5_PbufferBeforePredict ==
  (last.op = "Predict" /\ err = NoErr /\ last.ret >= 0) =>
    NumPbufferReceived(learner[last.l]) = FormatNum(TotalRows(learner[last.l].cache_))

\* C6: an accepted SetCacheData never lowers num_feature and leaves it at
\* least the column count of every registered matrix, in every life-cycle
\* state.
C6_NumFeatureMonotone ==
  [][\A l \in Learners :
       (last'.op = "SetCacheData" /\ last'.l = l /\ err' = NoErr) =>
         /\ learner'[l].mparam.num_feature >= learner[l].mparam.num_feature
         /\ \A i \in 1..Len(learner'[l].cache_) :
              learner'[l].mparam.num_feature >= mat[learner'[l].cache_[i].mat_].num_col]_vars

\* the pairs SetCacheData logs: bst:num_feature when it grew, then num_pbuffer
CacheDataPairs(Lold, Lnew) ==
  LET c == Lnew.cache_
      cols == {mat[c[i].mat_].num_col : i \in 1..Len(c)}
      nf == IF c = <<>> THEN 0 ELSE CHOOSE x \in cols : \A y \in cols : x >= y
      pb == <<"num_pbuffer", FormatNum(TotalRows(c))>>
  IN IF nf > Lold.mparam.num_feature
     THEN <<<<"bst:num_feature", FormatNum(nf)>>, pb>>
     ELSE <<pb>>

\* C7: every SetParam call, those SetCacheData makes included, appends its
\* pair at the end of the configuration log and nothing else changes the
\* log; an objective and a booster that are created receive exactly the
\* logged pairs, each once, in call order.
C7_LogAndReplay ==
  [][LET Lo == learner["L1"]
         Ln == learner'["L1"]
     IN /\ last'.op = "SetParam" => Ln.cfg_ = Append(Lo.cfg_, last'.arg)
        /\ (last'.op = "SetCacheData" /\ err' = NoErr) =>
             Ln.cfg_ = Lo.cfg_ \o CacheDataPairs(Lo, Ln)
        /\ (last'.op \notin {"SetParam", "SetCacheData"} \/ err' # NoErr) =>
             Ln.cfg_ = Lo.cfg_
        /\ Ln.obj_.serial # Lo.obj_.serial => Ln.obj_.params = Lo.cfg_
        /\ Ln.gbm_.serial # Lo.gbm_.serial => Ln.gbm_.params = Lo.cfg_]_vars

\* C7 witness: an objective was created from a log that sets one key twice
\* and holds the pairs of SetCacheData
W7_ReplayedOverride ==
  LET ps == learner["L1"].obj_.params
  IN /\ learner["L1"].obj_.ptr = "live" /\ learner["L1"].gbm_.ptr = "live"
     /\ \E i, j, k \in 1..Len(ps) :
          /\ i < j
          /\ ps[i] = <<"objective", "binary:logistic">>
          /\ ps[j] = <<"objective", "reg:linear">>
          /\ ps[k][1] = "num_pbuffer"
     /\ learner["L1"].gbm_.params = ps

\* C8: once objective and booster exist, SetParam of "objective" or "booster"
\* changes neither name, nor ModelParam, nor the instances; before that it
\* sets the name it names to the value given.
C8_NamesFrozen ==
  [][(last'.op = "SetParam" /\ last'.arg[1] \in {"objective", "booster"}) =>
       LET Lo == learner[last'.l]
           Ln == learner'[last'.l]
       IN IF Lo.obj_.ptr # "NULL" /\ Lo.gbm_.ptr # "NULL"
          THEN /\ Ln.name_obj_ = Lo.name_obj_ /\ Ln.name_gbm_ = Lo.name_gbm_
               /\ Ln.mparam = Lo.mparam
               /\ Ln.obj_ = Lo.obj_ /\ Ln.gbm_ = Lo.gbm_
          ELSE /\ Ln.name_obj_ = IF last'.arg[1] = "objective" THEN last'.arg[2]
                                 ELSE Lo.name_obj_
               /\ Ln.name_gbm_ = IF last'.arg[1] = "booster" THEN last'.arg[2]
                                 ELSE Lo.name_gbm_]_vars

\* C8 witness: an objective name other than the stored one was set after the
\* instances were created
W8_LateObjectiveIgnored ==
  /\ last.op = "SetParam" /\ last.arg[1] = "objective"
  /\ learner[last.l].gbm_.ptr = "live" /\ learner[last.l].obj_.ptr = "live"
  /\ learner[last.l].name_obj_ # last.arg[2]

\* C9: when LoadModel returns, objective and booster are live instances
\* created by this call from the names read from the stream, and the booster
\* state was loaded into that booster.
C9_LoadReinstantiates ==
  [][(last'.op = "LoadModel" /\ err' = NoErr) =>
       LET Lo == learner[last'.l]
           Ln == learner'[last'.l]
       IN /\ Ln.obj_.ptr = "live" /\ Ln.gbm_.ptr = "live"
          /\ Ln.obj_.serial > Lo.obj_.serial /\ Ln.gbm_.serial > Lo.gbm_.serial
          /\ Ln.obj_.name = last'.arg[2] /\ Ln.gbm_.name = last'.arg[3]
          /\ Ln.gbm_.model = "loaded"]_vars

\* the objective's probability-to-margin map as a learner applies it
ProbToMarginOf(L) ==
  IF L.kind = KindCur THEN Obj_ProbToMargin(L.obj_.name, L.mparam.base_score).val
  ELSE RegRank_AdjustBase(L.mparam, L.name_obj_).mp.base_score

\* C10: base_score is converted to margin space once per fresh model: the
\* first InitModel stores the converted value, an InitModel on a model that
\* an earlier InitModel set up leaves base_score as it is.
C10_ConvertedOnce ==
  [][(last'.op = "InitModel" /\ err' = NoErr) =>
       LET Lo == learner[last'.l]
           Ln == learner'[last'.l]
       IN /\ Gbm(Lo).model = "none" => Ln.mparam.base_score = ProbToMarginOf(Lo)
          /\ Gbm(Lo).model = "init" => Ln.mparam.base_score = Lo.mparam.base_score]_vars

\* a learner on which InitModel or LoadModel has completed
Initialised(L) ==
  /\ L.kind # KindNone
  /\ Gbm(L).ptr = "live" /\ Gbm(L).model # "none"
  /\ L.kind = KindCur => L.obj_.ptr = "live"

\* a learner as its constructor left it
Fresh(L) == L.kind # KindNone /\ L = Construct(L.kind)

SaveOf(L) ==
  IF L.kind = KindCur THEN BoostLearner_SaveModel(L, "crash").fo ELSE RegRank_SaveModel(L).fo

RawOf(L, m) ==
  IF L.kind = KindCur THEN BoostLearner_PredictRawValue(L, m)
  ELSE RegRank_PredictRawValue(L, m)

FullLen(L) == IF L.kind = KindCur THEN 4 ELSE 3

\* C11: when a fresh learner loads the stream an initialised learner saved,
\* it has the saver's ModelParam record (base_score unconverted, num_feature,
\* num_class, padding), objective name, booster name and booster state, it
\* would save the same stream and it predicts the same raw values; a
\* SaveModel after a LoadModel of a whole stream writes the stream loaded.
C11_RoundTrip ==
  /\ [][(/\ last.op = "SaveModel" /\ last'.op = "LoadModel"
          /\ last'.arg = last.out /\ err' = NoErr
          /\ Initialised(learner[last.l]) /\ Fresh(learner[last'.l])) =>
           LET S == learner[last.l]
               T == learner'[last'.l]
           IN /\ T.mparam = S.mparam
              /\ T.name_obj_ = S.name_obj_
              /\ T.kind = KindCur => T.name_gbm_ = S.name_gbm_ /\ T.gbm_.name = S.gbm_.name
              /\ Gbm(T).nboost = Gbm(S).nboost
              /\ SaveOf(T) = last.out
              /\ \A m \in Mats : RawOf(T, m) = RawOf(S, m)]_vars
  /\ [][(/\ last.op = "LoadModel" /\ last'.op = "SaveModel" /\ last'.l = last.l
          /\ Len(last.arg) = FullLen(learner[last.l])
          /\ Initialised(learner[last.l]) /\ err' = NoErr) =>
           last'.out = last.arg]_vars

\* C11 witness: the second learner saved the stream of a model whose
\* base_score had been converted, and it equals what the first would save
W11_SavedAgain ==
  /\ last.op = "SaveModel" /\ last.l = "L2" /\ err = NoErr
  /\ Initialised(learner["L1"]) /\ Initialised(learner["L2"])
  /\ learner["L2"].mparam.base_score = 847
  /\ last.out = SaveOf(learner["L1"])

\* C12: BoostLearner::SaveModel writes the ModelParam record, the objective
\* name, the booster name and the booster state, in this order, and
\* BoostLearner::LoadModel takes the fields of its stream in that order: a
\* stream of n fields sets the first n of them and fewer than four are fatal.
C12_CurrentLayout ==
  LET L == learner[last.l]
      n == Len(last.arg)
  IN /\ (last.op = "SaveModel" /\ L.kind = KindCur /\ err = NoErr) =>
          /\ last.calls = <<"mparam", "name_obj_", "name_gbm_", "gbm SaveModel">>
          /\ last.out = <<L.mparam, L.name_obj_, L.name_gbm_, L.gbm_.nboost>>
     /\ (last.op = "LoadModel" /\ L.kind = KindCur) =>
          /\ n >= 1 => L.mparam = last.arg[1]
          /\ n >= 2 => L.name_obj_ = last.arg[2]
          /\ n >= 3 => L.name_gbm_ = last.arg[3]
          /\ (n >= 4 /\ err = NoErr) => L.gbm_.nboost = last.arg[4]
          /\ n < 4 => err # NoErr

\* C12 witness: a current-generation learner loaded a whole saved stream
W12_LoadedSavedStream ==
  /\ last.op = "LoadModel" /\ last.l = "L2" /\ learner["L2"].kind = KindCur
  /\ err = NoErr /\ Len(last.arg) = 4
  /\ last.arg = SaveOf(learner["L1"])

\* C13 as stated: the legacy stream is the ModelParam record, then the
\* objective name, then the booster state.
C13_LegacyLayoutAsCurrent ==
  LET L == learner[last.l]
  IN (last.op = "SaveModel" /\ L.kind = KindLeg /\ err = NoErr) =>
       last.calls = <<"mparam", "name_obj_", "gbm SaveModel">>

\* C13 amended: RegRankBoostLearner::SaveModel writes the booster state, then
\* the ModelParam record, then the objective name, no booster name, and
\* LoadModel takes the fields of its stream in that order.
C13_LegacyLayout ==
  LET L == learner[last.l]
      n == Len(last.arg)
  IN /\ (last.op = "SaveModel" /\ L.kind = KindLeg /\ err = NoErr) =>
          /\ last.calls = <<"gbm SaveModel", "mparam", "name_obj_">>
          /\ last.out = <<L.base_gbm.nboost, L.mparam, L.name_obj_>>
     /\ (last.op = "LoadModel" /\ L.kind = KindLeg) =>
          /\ n >= 1 => L.base_gbm.nboost = last.arg[1]
          /\ n >= 2 => L.mparam = last.arg[2]
          /\ n >= 3 => L.name_obj_ = last.arg[3]
          /\ n < 2 => err # NoErr

\* C13 witness: a legacy learner loaded a whole saved stream
W13_LegacyLoadedSavedStream ==
  /\ last.op = "LoadModel" /\ last.l = "L2" /\ learner["L2"].kind = KindLeg
  /\ err = NoErr /\ Len(last.arg) = 3
  /\ last.arg = SaveOf(learner["L1"])
  /\ learner["L2"].mparam.base_score = 847

\* C14: SaveModel on a learner on which neither InitModel nor LoadModel has
\* completed fails with "model not initialized" and writes nothing.
C14_SaveNeedsInit ==
  (last.op = "SaveModel" /\ Gbm(learner[last.l]).model = "none") =>
    (err = ErrNotInit /\ last.out = <<>>)

\* C15: LoadModel of a stream that ends before its last field is fatal.
C15_TruncatedIsFatal ==
  (last.op = "LoadModel" /\ Len(last.arg) < FullLen(learner[last.l])) => err # NoErr

\* the calls of a trace made on one function, in order
CallsTo(cs, fn) == SelectSeq(cs, LAMBDA c : c.fn = fn)

Elems(q) == {q[i] : i \in 1..Len(q)}

\* C16: the calls of an UpdateOneIter that returns are the predictions of
\* the training matrix, made on the ensemble as it was before the call, then
\* one GetGradient on those predictions, then the DoBoost calls, each with
\* elements of that gradient, then at most a ClearBuffer; the ensemble grows
\* by the DoBoost calls and by nothing else, and a call that neither sets up
\* nor boosts the model leaves the ensemble alone.
C16_PredictGradientBoost ==
  [][LET l == last'.l
         Lo == learner[l]
         Ln == learner'[l]
         cs == last'.calls
         P == CallsTo(cs, "Predict")
         G == CallsTo(cs, "GetGradient")
         B == CallsTo(cs, "DoBoost")
         C == CallsTo(cs, "ClearBuffer")
     IN /\ (last'.op = "UpdateOneIter" /\ err' = NoErr) =>
             /\ Len(P) >= 1 /\ Len(G) = 1 /\ Len(B) >= 1 /\ Len(C) <= 1
             /\ cs = P \o G \o B \o C
             /\ \A i \in 1..Len(P) :
                  P[i].ens = Gbm(Lo).nboost /\ P[i].data = RawOf(Lo, last'.arg[2])
             /\ \A e \in Elems(G[1].data) : e.preds = P[1].data
             /\ \A k \in 1..Len(B) :
                  /\ B[k].ens = Gbm(Lo).nboost + k - 1
                  /\ Len(B[k].data) >= 1
                  /\ Elems(B[k].data) \subseteq Elems(G[1].data)
             /\ Gbm(Ln).nboost = Gbm(Lo).nboost + Len(B)
        /\ last'.op \in {"SetParam", "SetCacheData", "InitTrainer"} =>
             Gbm(Ln).nboost = Gbm(Lo).nboost]_vars

\* C16 witness: a second boosting round predicted on the ensemble the first
\* one produced
W16_SecondRound ==
  /\ last.op = "UpdateOneIter" /\ err = NoErr
  /\ Len(last.calls) >= 3
  /\ last.calls[1].fn = "Predict" /\ last.calls[1].ens >= 1
  /\ Gbm(learner[last.l]).nboost > last.calls[1].ens

\* C17: in an UpdateOneIter that returns, a gradient vector of rows*K
\* elements, K > 1, is boosted by exactly K DoBoost calls, the g-th for group
\* g with the elements [g*rows, (g+1)*rows); a vector of rows elements by
\* exactly one DoBoost call, with the whole vector.
C17_GroupSplit ==
  (last.op = "UpdateOneIter" /\ err = NoErr) =>
    LET rows == mat[last.arg[2]].num_row
        grad == CallsTo(last.calls, "GetGradient")[1].data
        B == CallsTo(last.calls, "DoBoost")
        K == Len(grad) \div rows
    IN IF Len(grad) = rows
       THEN Len(B) = 1 /\ B[1].group <= 0 /\ B[1].data = grad
       ELSE /\ Len(B) = K
            /\ \A g \in 0..(K - 1) :
                 /\ B[g + 1].group = g
                 /\ B[g + 1].data = SubSeq(grad, g * rows + 1, (g + 1) * rows)

\* C18: the report of an EvalOneIter(iter, evals, names) that returns is
\* "[iter]" followed by one segment per matrix of evals, the i-th labelled
\* names[i] and scored on the predictions for evals[i], in input order, and
\* nothing for an empty evals; the call changes neither a learner (ensemble,
\* cache registry) nor a matrix.
C18_ReportValue ==
  (last.op = "EvalOneIter" /\ err = NoErr /\ Len(last.arg[3]) >= Len(last.arg[2])) =>
    LET evals == last.arg[2]
        segs == last.out.segs
    IN /\ last.out.head = "[" \o DecStr[last.arg[1] + 1] \o "]"
       /\ Len(segs) = Len(evals)
       /\ \A i \in 1..Len(evals) :
            /\ segs[i].name = last.arg[3][i]
            /\ segs[i].preds = RawOf(learner[last.l], evals[i])

C18_Report ==
  /\ []C18_ReportValue
  /\ [][last'.op = "EvalOneIter" => (learner' = learner /\ mat' = mat)]_vars

\* C18 witness: iteration 1 was reported on two matrices, m2 before m1
W18_TwoSegments ==
  /\ last.op = "EvalOneIter" /\ err = NoErr
  /\ last.arg = <<1, <<"m2", "m1">>, <<"eval-1", "eval-2">>>>
  /\ last.out.head = "[1]"
  /\ Len(last.out.segs) = 2
  /\ last.out.segs[1].name = "eval-1" /\ last.out.segs[2].name = "eval-2"
  /\ Gbm(learner[last.l]).nboost >= 1

\* C19: Evaluate with a metric name the registry does not know returns the
\* pair with the empty name, without a fatal error and without predicting;
\* with "auto" it returns the name of the objective's default metric.
C19_UnknownMetricSentinel ==
  /\ (/\ last.op = "Evaluate" /\ Ready(learner[last.l])
      /\ last.arg[2] \notin (EvalNames \cup {"auto"})) =>
       (err = NoErr /\ last.out[1] = "" /\ CallsTo(last.calls, "Predict") = <<>>)
  /\ (last.op = "Evaluate" /\ err = NoErr /\ last.arg[2] = "auto") =>
       last.out[1] = Obj_DefaultEvalMetric(learner[last.l].obj_.name)

\* C20: an UpdateInteract("remove") that returns has made one trial
\* prediction per cache entry, in cache order, and then exactly one
\* DelteBooster call, its last call; it has called neither GetGradient nor
\* DoBoost nor InteractRePredict; the ensemble has lost one member when it
\* had one, and the cache registry, ModelParam and the matrices are as before.
C20_RemoveOnly ==
  [][(last'.op = "UpdateInteract" /\ last'.arg[1] = "remove" /\ err' = NoErr) =>
       LET Lo == learner[last'.l]
           Ln == learner'[last'.l]
           cs == last'.calls
           T == CallsTo(cs, "InteractPredict")
       IN /\ Len(T) = Len(Lo.cache_)
          /\ \A i \in 1..Len(T) : T[i].data = Lo.cache_[i].mat_ /\ T[i].ens = Gbm(Lo).nboost
          /\ Len(CallsTo(cs, "DelteBooster")) = 1
          /\ cs[Len(cs)].fn = "DelteBooster"
          /\ \A i \in 1..Len(cs) :
               cs[i].fn \notin {"GetGradient", "DoBoost", "InteractRePredict"}
          /\ Gbm(Lo).nboost >= 1 => Gbm(Ln).nboost = Gbm(Lo).nboost - 1
          /\ Ln.cache_ = Lo.cache_ /\ Ln.mparam = Lo.mparam
          /\ mat' = mat]_vars

\* C20 witness: "remove" on a learner with two cached matrices took the
\* second of two boosters away
W20_Removed ==
  /\ last.op = "UpdateInteract" /\ last.arg[1] = "remove" /\ err = NoErr
  /\ Len(learner[last.l].cache_) = 2
  /\ Len(CallsTo(last.calls, "InteractPredict")) = 2
  /\ last.calls[Len(last.calls)].ens = 2
  /\ Gbm(learner[last.l]).nboost = 1

\* C21: an UpdateInteract(action, train) on a ready learner fails with
\* "interact mode must cache training data" and leaves the ensemble as it
\* was whenever the lookup of train, or of the matrix of a cache entry, gives
\* no offset.
C21_InteractNeedsCache ==
  [][(last'.op = "UpdateInteract" /\ Ready(learner[last'.l])) =>
       LET l == last'.l
           Lo == learner[l]
           Ln == learner'[l]
       IN (\/ RegRank_FindBufferOffset(Lo, l, mat, last'.arg[2]) = -1
           \/ \E i \in 1..Len(Lo.cache_) :
                RegRank_FindBufferOffset(Lo, l, mat, Lo.cache_[i].mat_) = -1) =>
            (err' = ErrInteract /\ Gbm(Ln).nboost = Gbm(Lo).nboost)]_vars

\* the offset learner l gets from its lookup of matrix m
OffsetOf(l, m) ==
  IF IsCur(l) THEN BoostLearner_FindBufferOffset(learner[l], l, mat, m)
  ELSE RegRank_FindBufferOffset(learner[l], l, mat, m)

\* C22: at every moment at most one learner gets an offset from its lookup
\* of a matrix, and it is the learner the matrix refers back to; an accepted
\* SetCacheData makes the caller that learner for every matrix it names; a
\* learner that holds an entry for a matrix referring back to another
\* learner keeps the entry and stays without an offset for it ever after.
C22_ExclusiveOwner ==
  /\ [](\A m \in Mats :
          /\ Cardinality({l \in Learners : OffsetOf(l, m) >= 0}) <= 1
          /\ \A l \in Learners :
               OffsetOf(l, m) >= 0 => mat[m].cache_learner_ptr_ = l
          /\ \A l \in Learners :
               (IsRegistered(learner[l], m) /\ mat[m].cache_learner_ptr_ # l) =>
                 OffsetOf(l, m) = -1)
  /\ [][(last'.op = "SetCacheData" /\ err' = NoErr) =>
          \A i \in 1..Len(last'.arg) : mat'[last'.arg[i]].cache_learner_ptr_ = last'.l]_vars
  /\ [][\A l \in Learners, m \in Mats :
          (IsRegistered(learner[l], m) /\ mat[m].cache_learner_ptr_ # l) =>
            (IsRegistered(learner'[l], m) /\ mat'[m].cache_learner_ptr_ # l)]_vars

\* C22 witness: the learner that registered a matrix first looks it up after
\* a second learner registered it: no offset, although its entry is there
\* with the row count the matrix has, while the second learner has one
W22_FirstOwnerOrphaned ==
  /\ last.op = "FindBufferOffset" /\ last.l = "L1" /\ last.ret = -1
  /\ IsRegistered(learner["L1"], last.arg) /\ IsRegistered(learner["L2"], last.arg)
  /\ EntryOf(learner["L1"], last.arg).num_row_ = mat[last.arg].num_row
  /\ mat[last.arg].cache_learner_ptr_ = "L2"
  /\ OffsetOf("L2", last.arg) >= 0

\* C23: an UpdateInteract(action, train) with another action than "remove"
\* that returns, train being validly registered, has handed GetGradient the
\* trial prediction of train, one value per row of train, has then boosted
\* once with that gradient, the ensemble growing by one, and has then
\* re-predicted every cached matrix, in cache order.
C23_GradientOfTrain ==
  [][(/\ last'.op = "UpdateInteract" /\ last'.arg[1] # "remove"
      /\ last'.ret >= 0 /\ err' = NoErr) =>
       LET Lo == learner[last'.l]
           Ln == learner'[last'.l]
           cs == last'.calls
           G == CallsTo(cs, "GetGradient")
           B == CallsTo(cs, "DoBoost")
           R == CallsTo(cs, "InteractRePredict")
       IN /\ Len(G) = 1 /\ Len(B) = 1 /\ Len(R) = Len(Lo.cache_)
          /\ SubSeq(cs, Len(cs) - Len(R) - 1, Len(cs)) = G \o B \o R
          /\ \A e \in Elems(G[1].data) :
               e.preds = RegRank_InteractPredictValue(Lo, mat, last'.arg[2])
          /\ B[1].data = G[1].data
          /\ Gbm(Ln).nboost = Gbm(Lo).nboost + 1
          /\ \A i \in 1..Len(R) : R[i].data = Lo.cache_[i].mat_]_vars

\* C24: at every moment of a per-row loop on a matrix that has an offset,
\* the worker for row j has called the booster with buffer index offset+j
\* and written at most preds[j]; no two workers have used the same buffer
\* index or written the same element; every buffer index used lies in the
\* registered range of the matrix and in the range of no other cache entry.
C24_RowsDisjoint ==
  (last.op \in LoopOps /\ last.ret >= 0) =>
    LET L == learner[last.l]
        cs == RowCalls
        e == EntryOf(L, last.arg[1])
    IN /\ \A i \in 1..Len(cs) : cs[i].off = last.ret + cs[i].data
       /\ last.out = IF last.op \in LoopOpsWriting
                     THEN [i \in 1..Len(cs) |-> cs[i].data] ELSE <<>>
       /\ \A i, k \in 1..Len(cs) :
            i # k => cs[i].off # cs[k].off /\ cs[i].data # cs[k].data
       /\ \A i \in 1..Len(cs) :
            /\ cs[i].off \in Slots(e)
            /\ \A n \in 1..Len(L.cache_) :
                 L.cache_[n] # e => cs[i].off \notin Slots(L.cache_[n])

\* C24 witness: InteractPredict of the second of two cached matrices has
\* returned, the worker of its last row having run before the worker of
\* row 0
W24_LoopDoneOutOfOrder ==
  /\ last.op = "InteractPredict" /\ err = NoErr
  /\ Len(learner[last.l].cache_) = 2 /\ last.ret = MaxRow
  /\ Len(last.calls) = MaxRow + 1
  /\ last.calls[1].data = MaxRow - 1 /\ last.calls[MaxRow].data = 0
  /\ last.calls[MaxRow + 1].fn = "PredTransform"
  /\ last.out[1] = MaxRow - 1

\* C25: a legacy UpdateOneIter(iter, train) that returns has cleared buffer
\* slots exactly when clear_period is not 0 and iter+1 is a multiple of it;
\* the clearing is its last step, after the DoBoost calls, and clears the
\* slots offset..offset+rows-1 of train, none of them a slot of another
\* cache entry; with clear_period 0 it clears nothing.
C25_PeriodicClear ==
  (last.op = "UpdateOneIter" /\ learner[last.l].kind = KindLeg /\ err = NoErr) =>
    LET L == learner[last.l]
        cp == L.mparam.clear_period
        cs == last.calls
        C == CallsTo(cs, "ClearBuffer")
        due == cp # 0 /\ (last.arg[1] + 1) % cp = 0
        e == EntryOf(L, last.arg[2])
    IN /\ Len(C) = IF due THEN 1 ELSE 0
       /\ due =>
            /\ cs[Len(cs)].fn = "ClearBuffer" /\ cs[Len(cs) - 1].fn = "DoBoost"
            /\ C[1].ens = L.base_gbm.nboost
            /\ Elems(C[1].data) = Slots(e)
            /\ Elems(C[1].data) =
                 last.ret .. (last.ret + mat[last.arg[2]].num_row - 1)
            /\ \A n \in 1..Len(L.cache_) :
                 L.cache_[n] # e => Elems(C[1].data) \cap Slots(L.cache_[n]) = {}

\* C25 witness: with clear_period 2, iteration 1 on the second of two cached
\* matrices has boosted and then cleared that matrix's slots
W25_ClearedSecondMatrix ==
  /\ last.op = "UpdateOneIter" /\ err = NoErr /\ last.arg[1] = 1
  /\ learner[last.l].mparam.clear_period = 2
  /\ Len(learner[last.l].cache_) = 2 /\ last.ret = MaxRow
  /\ last.calls[Len(last.calls)].fn = "ClearBuffer"
  /\ Len(last.calls[Len(last.calls)].data) = MaxRow

\* C26: an EvalOneIter that returns has applied EvalTransform once per
\* matrix evaluated, and an Evaluate that returns a score once, each to the
\* raw predictions, and neither has called PredTransform; a Predict that
\* returns has applied PredTransform once to the raw predictions and has not
\* called EvalTransform; an UpdateOneIter that returns has called neither
\* transform.
C26_HooksApart ==
  LET cs == last.calls
      P == CallsTo(cs, "PredTransform")
      E == CallsTo(cs, "EvalTransform")
      L == learner[last.l]
  IN /\ (last.op = "EvalOneIter" /\ err = NoErr) =>
          /\ P = <<>> /\ Len(E) = Len(last.arg[2])
          /\ \A i \in 1..Len(E) : E[i].data = RawOf(L, last.arg[2][i])
     /\ (last.op = "Evaluate" /\ err = NoErr /\ last.out[1] # "") =>
          /\ P = <<>> /\ Len(E) = 1
          /\ E[1].data = RawOf(L, last.arg[1])
     /\ (last.op = "Predict" /\ err = NoErr) =>
          /\ E = <<>> /\ Len(P) = 1
          /\ P[1].data = RawOf(L, last.arg)
     /\ (last.op = "UpdateOneIter" /\ err = NoErr) => (P = <<>> /\ E = <<>>)

\* C27: an InitModel that fails because the objective or the booster name
\* is unknown leaves the learner without objective and without booster and
\* with the base_score it had; at every moment a current-generation learner
\* holds an objective exactly when it holds a booster.
C27_NoHalfConstructed ==
  /\ [](\A l \in Learners :
          learner[l].kind = KindCur =>
            (learner[l].obj_.ptr = "NULL" <=> learner[l].gbm_.ptr = "NULL"))
  /\ [][(last'.op = "InitModel" /\ err' \in ConfigErrors) =>
          LET Lo == learner[last'.l]
              Ln == learner'[last'.l]
          IN /\ Ln.obj_.ptr = "NULL" /\ Ln.gbm_.ptr = "NULL"
             /\ Ln.mparam.base_score = Lo.mparam.base_score]_vars

====
